---- MODULE Spec2Model ----
(***************************************************************************)
(* trakt: pipeline wiring validation (trakt/core/pipeline.py) and the      *)
(* runner template (trakt/runtime/runner_base.py).                         *)
(***************************************************************************)
EXTENDS Integers, Sequences, FiniteSets, TLC

VARIABLES
    pipeline,          \* the Pipeline object: execution_mode, inputs, steps, outputs
    pc,                \* position inside Pipeline.validate() / RunnerBase.run()
    verr,              \* outcome of the last Pipeline.validate() call
    artifacts,         \* run(): names in the artifact namespace
    step_reports,      \* run(): step ids of the appended step reports
    invoked,           \* run(): step ids whose execute_step was entered, in call order
    loads,             \* run(): number of load_inputs calls
    out_calls,         \* run(): number of write_outputs calls
    outputs,           \* run(): local `outputs` (targets returned by write_outputs)
    error,             \* run(): local `error` ({type, message} or None)
    exc,               \* run(): the exception in flight (or None)
    result,            \* run(): local `result` (or None)
    manifest_calls,    \* run(): number of write_manifest calls
    manifest_files,    \* the manifests persisted on disk, in write order
    manifest_exc,      \* run(): what write_manifest raised (or None)
    failure,           \* run(): which callback raised, and what (or None)
    outcome,           \* what run() / validate() handed to its caller
    args,              \* the arguments of the helper function being called
    ret,               \* what that helper function returned or raised
    active_span,       \* ctx.metadata["active_span"]: the step span set, or None
    span_events,       \* the events added to each span, by span, in order
    delivered          \* the events handed to the telemetry hook, in order

vars == <<pipeline, pc, verr, artifacts, step_reports, invoked, loads, out_calls,
          outputs, error, exc, result, manifest_calls, manifest_files, manifest_exc,
          failure, outcome, args, ret, active_span, span_events, delivered>>

runvars == <<artifacts, step_reports, invoked, loads, out_calls, outputs, error,
             exc, result, manifest_calls, manifest_files, manifest_exc, failure>>

\* The call of a helper function outside run(): its arguments and its outcome.
callvars == <<args, ret>>

\* The telemetry state of a run: the Context metadata and the recording spans.
ctxvars == <<active_span, span_events, delivered>>

----------------------------------------------------------------------------
(* Bounds of the explored pipelines.                                        *)

MaxSteps == 2

\* Python None (no normalised mode, type name or message equals it).
None == "None"

\* Artifact / output names, in the order sorted() gives them.
NameOrder == <<"a", "b">>
Names == {NameOrder[i] : i \in 1..Len(NameOrder)}
NameIndex(n) == CHOOSE i \in 1..Len(NameOrder) : NameOrder[i] = n

\* Step ids by position in the step list.
StepIdOrder == <<"s1", "s2", "s3", "s4">>
StepId(i) == IF i <= Len(StepIdOrder) THEN StepIdOrder[i] ELSE "sN"

\* Output dataset targets by position.
TargetOrder == <<"o1", "o2", "o3">>
Target(i) == IF i <= Len(TargetOrder) THEN TargetOrder[i] ELSE "oN"

\* Pipeline.execution_mode after __post_init__ (stripped, lower-cased).
Modes == {"batch", "stream", "realtime", ""}

\* CombineStrategy enum values.
CONCAT == "concat"
UNION_BY_NAME == "union_by_name"
VALIDATE_SCHEMA == "validate_schema"
CombineStrategy == {CONCAT, UNION_BY_NAME, VALIDATE_SCHEMA}

\* Artifact.kind as written by the author, character by character.
Kinds == { <<"c", "s", "v">>, <<" ", "C", "S", "V">>, <<"j", "s", "o", "n">> }

----------------------------------------------------------------------------
(* str.strip() and str.lower() on character sequences.                      *)

RECURSIVE LStrip(_)
LStrip(s) == IF s # <<>> /\ Head(s) = " " THEN LStrip(Tail(s)) ELSE s

RECURSIVE RStrip(_)
RStrip(s) ==
    IF s # <<>> /\ s[Len(s)] = " " THEN RStrip(SubSeq(s, 1, Len(s) - 1)) ELSE s

Strip(s) == RStrip(LStrip(s))

LowerChar(c) ==
    CASE c = "C" -> "c"
      [] c = "S" -> "s"
      [] c = "V" -> "v"
      [] c = "J" -> "j"
      [] c = "O" -> "o"
      [] c = "N" -> "n"
      [] c = "F" -> "f"
      [] c = "A" -> "a"
      [] c = "L" -> "l"
      [] c = "E" -> "e"
      [] c = "W" -> "w"
      [] c = "M" -> "m"
      [] OTHER -> c

Lower(s) == [i \in 1..Len(s) |-> LowerChar(s[i])]

----------------------------------------------------------------------------
(* Sequences without repetition, and the bounded pipelines.                 *)

SeqsUpTo(S, n) == UNION {[1..k -> S] : k \in 0..n}

Range(s) == {s[i] : i \in 1..Len(s)}

\* Artifact.metadata.get("required", True): a bool, a string, a number or absent.
BoolFlag(b) == [t |-> "bool", b |-> b, s |-> <<>>, n |-> 0]
StrFlag(s) == [t |-> "str", b |-> FALSE, s |-> s, n |-> 0]
IntFlag(n) == [t |-> "int", b |-> FALSE, s |-> <<>>, n |-> n]
AbsentFlag == [t |-> "absent", b |-> FALSE, s |-> <<>>, n |-> 0]

RequiredFlags == {BoolFlag(TRUE), BoolFlag(FALSE)}

\* (kind, combine_strategy, metadata["required"]) of the declared input artifacts.
ArtifactProfiles ==
    { << <<"c", "s", "v">>, CONCAT, BoolFlag(TRUE) >>,
      << <<"c", "s", "v">>, UNION_BY_NAME, BoolFlag(FALSE) >>,
      << <<" ", "C", "S", "V">>, VALIDATE_SCHEMA, BoolFlag(TRUE) >>,
      << <<"j", "s", "o", "n">>, UNION_BY_NAME, BoolFlag(TRUE) >> }

Artifact(n, prof) ==
    [name |-> n, kind |-> prof[1], combine_strategy |-> prof[2], required |-> prof[3]]

\* Pipeline.inputs is a dict (distinct keys, insertion order): none or one input.
InputDicts ==
    {<<>>} \cup {<<Artifact(n, prof)>> : n \in Names, prof \in ArtifactProfiles}

\* The names a step lists as inputs, or as outputs.
RefLists == {<<>>, <<"a">>, <<"b">>}

\* A step; `resolved` tells a ResolvedStep (whose input bindings are the
\* top-level strings of `inputs`) from a plain Step subclass.
StepBodies ==
    [inputs : RefLists, outputs : RefLists,
     supports_batch : BOOLEAN, supports_stream : BOOLEAN]

MkStep(i, b, r) ==
    [id |-> StepId(i), inputs |-> b.inputs, outputs |-> b.outputs,
     supports_batch |-> b.supports_batch, supports_stream |-> b.supports_stream,
     resolved |-> r]

StepLists(r) ==
    {[i \in 1..Len(bs) |-> MkStep(i, bs[i], r)] : bs \in SeqsUpTo(StepBodies, MaxSteps)}

\* Pipeline.outputs: target -> source, a dict in insertion order.
OutputDicts ==
    {[i \in 1..Len(ss) |-> [target |-> Target(i), source |-> ss[i]]] : ss \in RefLists}

Pipeline(m, ins, sts, outs) ==
    [execution_mode |-> m, inputs |-> ins, steps |-> sts, outputs |-> outs]

InputNames(p) == {p.inputs[i].name : i \in 1..Len(p.inputs)}

InputNamed(p, n) == p.inputs[CHOOSE i \in 1..Len(p.inputs) : p.inputs[i].name = n]

----------------------------------------------------------------------------
(* Pipeline.validate(), trakt/core/pipeline.py.                             *)

\* Truthiness of an optional string (`if invalid_execution_mode`).
TruthyStr(s) == s # None /\ s # ""

\* Variant: the flag is taken by its truthiness, strings included.
_is_required_input_Truthy(artifact) ==
    LET flag == artifact.required IN
    CASE flag.t = "absent" -> TRUE
      [] flag.t = "bool" -> flag.b
      [] flag.t = "str" -> flag.s # <<>>
      [] flag.t = "int" -> flag.n # 0
      [] OTHER -> TRUE

\* _is_required_input(artifact): bool as is, str unless "false"/"0"/"no", else bool(flag).
_is_required_input(artifact) ==
    LET flag == artifact.required IN
    CASE flag.t = "absent" -> TRUE
      [] flag.t = "bool" -> flag.b
      [] flag.t = "str" ->
            Lower(flag.s) \notin { <<"f", "a", "l", "s", "e">>, <<"0">>, <<"n", "o">> }
      [] flag.t = "int" -> flag.n # 0
      [] OTHER -> TRUE

\* Variant: the kind is compared as written, without strip().lower().
RECURSIVE ScanStreamInputs_RawKind(_, _, _)
ScanStreamInputs_RawKind(p, i, acc) ==
    IF i > Len(p.inputs) THEN acc
    ELSE LET artifact == p.inputs[i] IN
         ScanStreamInputs_RawKind(p, i + 1,
            IF artifact.kind = <<"c", "s", "v">>
               /\ artifact.combine_strategy # CONCAT
            THEN Append(acc, <<artifact.name, artifact.combine_strategy>>)
            ELSE acc)

\* for input_name, artifact in self.inputs.items(): ... (stream mode only)
RECURSIVE ScanStreamInputs(_, _, _)
ScanStreamInputs(p, i, acc) ==
    IF i > Len(p.inputs) THEN acc
    ELSE LET artifact == p.inputs[i] IN
         ScanStreamInputs(p, i + 1,
            IF Lower(Strip(artifact.kind)) = <<"c", "s", "v">>
               /\ artifact.combine_strategy # CONCAT
            THEN Append(acc, <<artifact.name, artifact.combine_strategy>>)
            ELSE acc)

\* Variant: the two capability flags are mixed up.
ModeCheck_Swapped(mode, step, st) ==
    LET st1 == IF mode = "batch" /\ ~step.supports_stream
               THEN [st EXCEPT !.incompatible_steps = Append(@, <<step.id, mode>>)]
               ELSE st
    IN IF mode = "stream" /\ ~step.supports_batch
       THEN [st1 EXCEPT !.incompatible_steps = Append(@, <<step.id, mode>>)]
       ELSE st1

\* if mode == "batch" and not step.supports_batch: ... / "stream" ...
ModeCheck(mode, step, st) ==
    LET st1 == IF mode = "batch" /\ ~step.supports_batch
               THEN [st EXCEPT !.incompatible_steps = Append(@, <<step.id, mode>>)]
               ELSE st
    IN IF mode = "stream" /\ ~step.supports_stream
       THEN [st1 EXCEPT !.incompatible_steps = Append(@, <<step.id, mode>>)]
       ELSE st1

\* for input_name in step.inputs: ...
RECURSIVE ScanStepInputs(_, _, _, _)
ScanStepInputs(p, step, k, st) ==
    IF k > Len(step.inputs) THEN st
    ELSE LET input_name == step.inputs[k] IN
         ScanStepInputs(p, step, k + 1,
            IF input_name \notin st.available_names
            THEN [st EXCEPT !.missing_inputs = Append(@, <<step.id, input_name>>)]
            ELSE IF input_name \in InputNames(p)
            THEN [st EXCEPT !.used_pipeline_inputs = @ \cup {input_name}]
            ELSE st)

\* Variant: a colliding step takes the name over (the owner is overwritten).
RECURSIVE ScanStepOutputs_Overwrite(_, _, _)
ScanStepOutputs_Overwrite(step, k, st) ==
    IF k > Len(step.outputs) THEN st
    ELSE LET output_name == step.outputs[k] IN
         ScanStepOutputs_Overwrite(step, k + 1,
            IF output_name \in DOMAIN st.produced_by
            THEN [st EXCEPT !.output_collisions =
                     Append(@, <<step.id, output_name, st.produced_by[output_name]>>),
                            !.produced_by = (output_name :> step.id) @@ @]
            ELSE [st EXCEPT !.produced_by = (output_name :> step.id) @@ @,
                            !.available_names = @ \cup {output_name}])

\* for output_name in step.outputs: ...
RECURSIVE ScanStepOutputs(_, _, _)
ScanStepOutputs(step, k, st) ==
    IF k > Len(step.outputs) THEN st
    ELSE LET output_name == step.outputs[k] IN
         ScanStepOutputs(step, k + 1,
            IF output_name \in DOMAIN st.produced_by
            THEN [st EXCEPT !.output_collisions =
                     Append(@, <<step.id, output_name, st.produced_by[output_name]>>)]
            ELSE [st EXCEPT !.produced_by = (output_name :> step.id) @@ @,
                            !.available_names = @ \cup {output_name}])

\* Variant: a step's outputs are registered before its inputs are looked up.
RECURSIVE ScanSteps_OutputsFirst(_, _, _)
ScanSteps_OutputsFirst(p, i, st) ==
    IF i > Len(p.steps) THEN st
    ELSE LET step == p.steps[i] IN
         ScanSteps_OutputsFirst(p, i + 1,
            ScanStepInputs(p, step, 1,
                ScanStepOutputs(step, 1, ModeCheck(p.execution_mode, step, st))))

\* for step in self.steps: ...
RECURSIVE ScanSteps(_, _, _)
ScanSteps(p, i, st) ==
    IF i > Len(p.steps) THEN st
    ELSE LET step == p.steps[i] IN
         ScanSteps(p, i + 1,
            ScanStepOutputs(step, 1,
                ScanStepInputs(p, step, 1, ModeCheck(p.execution_mode, step, st))))

\* sorted(...) of a set of names.
RECURSIVE SortedNames(_, _)
SortedNames(S, i) ==
    IF i > Len(NameOrder) THEN <<>>
    ELSE (IF NameOrder[i] \in S THEN <<NameOrder[i]>> ELSE <<>>) \o SortedNames(S, i + 1)

\* for target, output_spec in self.outputs.items(): ...
RECURSIVE ScanOutputs(_, _, _, _)
ScanOutputs(p, available_names, i, acc) ==
    IF i > Len(p.outputs) THEN acc
    ELSE ScanOutputs(p, available_names, i + 1,
            IF p.outputs[i].source \notin available_names
            THEN Append(acc, <<p.outputs[i].target, p.outputs[i].source>>)
            ELSE acc)

\* Keyword of the k-th input binding of a resolved step.
ParamOrder == <<"input", "right", "extra">>
Param(k) == IF k <= Len(ParamOrder) THEN ParamOrder[k] ELSE "paramN"

RECURSIVE SuspectsOfStep(_, _, _, _)
SuspectsOfStep(step, available_names, k, acc) ==
    IF k > Len(step.inputs) THEN acc
    ELSE SuspectsOfStep(step, available_names, k + 1,
            IF step.inputs[k] \in available_names THEN acc
            ELSE Append(acc, <<step.id, Param(k), step.inputs[k]>>))

RECURSIVE _detect_suspected_literals(_, _, _, _)
_detect_suspected_literals(steps, available_names, i, acc) ==
    IF i > Len(steps) THEN acc
    ELSE _detect_suspected_literals(steps, available_names, i + 1,
            IF ~steps[i].resolved THEN acc
            ELSE SuspectsOfStep(steps[i], available_names, 1, acc))

\* validate() returned None: no error object.
NoValidationError ==
    [raised |-> FALSE, invalid_execution_mode |-> None, incompatible_steps |-> <<>>,
     incompatible_inputs |-> <<>>, missing_inputs |-> <<>>, unused_inputs |-> <<>>,
     output_collisions |-> <<>>, unknown_output_bindings |-> <<>>,
     suspected_literal_bindings |-> <<>>]

\* The body of validate() up to the final `if`: every list it collects.
Findings(p) ==
    LET mode == p.execution_mode
        st0 == [produced_by |-> [n \in InputNames(p) |-> "pipeline input"],
                available_names |-> InputNames(p),
                used_pipeline_inputs |-> {},
                incompatible_steps |-> <<>>,
                missing_inputs |-> <<>>,
                output_collisions |-> <<>>]
        st == ScanSteps(p, 1, st0)
    IN [invalid_execution_mode |->
            IF mode \notin {"batch", "stream"} THEN mode ELSE None,
        incompatible_steps |-> st.incompatible_steps,
        incompatible_inputs |->
            IF mode = "stream" THEN ScanStreamInputs(p, 1, <<>>) ELSE <<>>,
        missing_inputs |-> st.missing_inputs,
        unused_inputs |->
            SortedNames({n \in InputNames(p) \ st.used_pipeline_inputs :
                            _is_required_input(InputNamed(p, n))}, 1),
        output_collisions |-> st.output_collisions,
        unknown_output_bindings |-> ScanOutputs(p, st.available_names, 1, <<>>),
        suspected_literal_bindings |->
            _detect_suspected_literals(p.steps, st.available_names, 1, <<>>)]

\* PipelineValidationError(...), raised with the lists it is given.
PipelineValidationError(f) ==
    [raised |-> TRUE,
     invalid_execution_mode |-> f.invalid_execution_mode,
     incompatible_steps |-> f.incompatible_steps,
     incompatible_inputs |-> f.incompatible_inputs,
     missing_inputs |-> f.missing_inputs,
     unused_inputs |-> f.unused_inputs,
     output_collisions |-> f.output_collisions,
     unknown_output_bindings |-> f.unknown_output_bindings,
     suspected_literal_bindings |-> f.suspected_literal_bindings]

NoFindings ==
    [invalid_execution_mode |-> None, incompatible_steps |-> <<>>,
     incompatible_inputs |-> <<>>, missing_inputs |-> <<>>, unused_inputs |-> <<>>,
     output_collisions |-> <<>>, unknown_output_bindings |-> <<>>,
     suspected_literal_bindings |-> <<>>]

\* Variant: validate() raises at the first category it finds violated.
validate_FirstOnly(p) ==
    LET f == Findings(p) IN
    IF TruthyStr(f.invalid_execution_mode)
    THEN PipelineValidationError(
            [NoFindings EXCEPT !.invalid_execution_mode = f.invalid_execution_mode])
    ELSE IF f.incompatible_steps # <<>>
    THEN PipelineValidationError(
            [NoFindings EXCEPT !.incompatible_steps = f.incompatible_steps])
    ELSE IF f.incompatible_inputs # <<>>
    THEN PipelineValidationError(
            [NoFindings EXCEPT !.incompatible_inputs = f.incompatible_inputs])
    ELSE IF f.missing_inputs # <<>>
    THEN PipelineValidationError([NoFindings EXCEPT !.missing_inputs = f.missing_inputs])
    ELSE IF f.unused_inputs # <<>>
    THEN PipelineValidationError([NoFindings EXCEPT !.unused_inputs = f.unused_inputs])
    ELSE IF f.output_collisions # <<>>
    THEN PipelineValidationError(
            [NoFindings EXCEPT !.output_collisions = f.output_collisions])
    ELSE IF f.unknown_output_bindings # <<>>
    THEN PipelineValidationError(
            [NoFindings EXCEPT !.unknown_output_bindings = f.unknown_output_bindings])
    ELSE IF f.suspected_literal_bindings # <<>>
    THEN PipelineValidationError(
            [NoFindings EXCEPT !.suspected_literal_bindings = f.suspected_literal_bindings])
    ELSE NoValidationError

validate(p) ==
    LET f == Findings(p) IN
    IF \/ TruthyStr(f.invalid_execution_mode)
       \/ f.incompatible_steps # <<>>
       \/ f.incompatible_inputs # <<>>
       \/ f.missing_inputs # <<>>
       \/ f.unused_inputs # <<>>
       \/ f.output_collisions # <<>>
       \/ f.unknown_output_bindings # <<>>
       \/ f.suspected_literal_bindings # <<>>
    THEN PipelineValidationError(f)
    ELSE NoValidationError

----------------------------------------------------------------------------
(* A direct call of Pipeline.validate() on a constructed pipeline.          *)

\* Python None in the slots of run()'s locals.
NoError == [type |-> None, message |-> None]
NoExc == [cls |-> None, type |-> None, message |-> None]
NoResult ==
    [status |-> None, steps |-> <<>>, outputs |-> <<>>, manifest_path |-> None]

NoFailure == [where |-> None, exc |-> NoExc]

\* What a call handed to its caller: nothing yet, a return value or an exception.
NotStarted == [kind |-> "none", exc |-> NoExc, value |-> NoResult]
Returned(v) == [kind |-> "returned", exc |-> NoExc, value |-> v]
Raised(e) == [kind |-> "raised", exc |-> e, value |-> NoResult]

ValidationError == [cls |-> "Exception", type |-> "PipelineValidationError",
                    message |-> "pipeline validation failed"]

\* No helper function is being called.
NoCall == [fn |-> "None"]

CallIdle == args = NoCall /\ ret = NoCall

\* No span is open and no event was emitted.
CtxIdle == active_span = None /\ span_events = <<>> /\ delivered = <<>>

RunIdle ==
    /\ artifacts = {}
    /\ step_reports = <<>>
    /\ invoked = <<>>
    /\ loads = 0
    /\ out_calls = 0
    /\ outputs = <<>>
    /\ error = NoError
    /\ exc = NoExc
    /\ result = NoResult
    /\ manifest_calls = 0
    /\ manifest_files = <<>>
    /\ manifest_exc = NoExc
    /\ failure = NoFailure

InitValidate ==
    /\ \E m \in Modes, ins \in InputDicts, r \in BOOLEAN, outs \in OutputDicts :
          \E sts \in StepLists(r) : pipeline = Pipeline(m, ins, sts, outs)
    /\ pc = "validate"
    /\ verr = NoValidationError
    /\ outcome = NotStarted
    /\ RunIdle
    /\ CtxIdle
    /\ CallIdle

\* Variant: validate() registers the names the steps produce in self.inputs
\* instead of in a local copy.
ValidateCall_Registers ==
    /\ pc = "validate"
    /\ LET v == validate(pipeline)
           produced == UNION {Range(pipeline.steps[i].outputs) :
                                i \in 1..Len(pipeline.steps)} \ InputNames(pipeline)
           names == SortedNames(produced, 1)
       IN
         /\ verr' = v
         /\ pc' = IF v.raised THEN "invalid" ELSE "validated"
         /\ outcome' = IF v.raised THEN Raised(ValidationError) ELSE Returned(NoResult)
         /\ pipeline' =
               [pipeline EXCEPT !.inputs =
                   @ \o [k \in 1..Len(names) |->
                            Artifact(names[k], << <<"c", "s", "v">>, CONCAT, BoolFlag(FALSE) >>)]]
    /\ UNCHANGED <<callvars, ctxvars, runvars>>

\* result = pipeline.validate(): returns None or raises PipelineValidationError;
\* it assigns to locals only.
ValidateCall ==
    /\ pc = "validate"
    /\ LET v == validate(pipeline) IN
         /\ verr' = v
         /\ pc' = IF v.raised THEN "invalid" ELSE "validated"
         /\ outcome' = IF v.raised THEN Raised(ValidationError) ELSE Returned(NoResult)
    /\ UNCHANGED <<callvars, ctxvars, pipeline, runvars>>

\* A second pipeline.validate() on a pipeline whose first validation passed.
ValidateAgain ==
    /\ pc = "validated"
    /\ LET v == validate(pipeline) IN
         /\ verr' = v
         /\ pc' = IF v.raised THEN "invalid2" ELSE "validated2"
         /\ outcome' = IF v.raised THEN Raised(ValidationError) ELSE Returned(NoResult)
    /\ UNCHANGED <<callvars, ctxvars, pipeline, runvars>>

NextValidate == ValidateCall \/ ValidateAgain

SpecValidate == InitValidate /\ [][NextValidate]_vars

----------------------------------------------------------------------------
(* RunnerBase.run(), trakt/runtime/runner_base.py.                          *)

\* What a callback can raise: `cls` tells subclasses of Exception from the
\* other BaseException subclasses (KeyboardInterrupt, SystemExit).
Exc(cls, type, message) == [cls |-> cls, type |-> type, message |-> message]

CallbackErrors ==
    {Exc("Exception", "ValueError", "boom"),
     Exc("Exception", "KeyError", "missing"),
     Exc("BaseException", "KeyboardInterrupt", "")}

\* What write_manifest can raise (mkdir / write_text / json.dumps failures).
ManifestErrors == {Exc("Exception", "OSError", "disk full")}

NoResultError == Exc("Exception", "RuntimeError", "Pipeline run finished without result.")

\* The pipelines handed to run(): steps as the loader builds them.
RunStepBodies == {b \in StepBodies : b.supports_batch}

RunStepLists ==
    {[i \in 1..Len(bs) |-> MkStep(i, bs[i], TRUE)] :
        bs \in SeqsUpTo(RunStepBodies, MaxSteps)}

InitRun ==
    /\ \E m \in Modes, ins \in InputDicts, sts \in RunStepLists, outs \in OutputDicts :
          pipeline = Pipeline(m, ins, sts, outs)
    /\ pc = "run"
    /\ verr = NoValidationError
    /\ outcome = NotStarted
    /\ RunIdle
    /\ CtxIdle
    /\ CallIdle

\* Variant: the validation error is not propagated and the run goes on.
RunValidate_Ignored ==
    /\ pc = "run"
    /\ verr' = validate(pipeline)
    /\ pc' = "load"
    /\ UNCHANGED <<callvars, ctxvars, pipeline, runvars, outcome>>

\* pipeline.validate() at the head of run(); on success the locals are set.
RunValidate ==
    /\ pc = "run"
    /\ LET v == validate(pipeline) IN
         /\ verr' = v
         /\ pc' = IF v.raised THEN "done" ELSE "load"
         /\ outcome' = IF v.raised THEN Raised(ValidationError) ELSE outcome
    /\ UNCHANGED <<callvars, ctxvars, pipeline, runvars>>

\* Variant: the manifest is written on the success path only (no finally).
Except_NoFinally(where, e) ==
    /\ failure' = [where |-> where, exc |-> e]
    /\ exc' = e
    /\ error' = IF e.cls = "Exception"
                THEN [type |-> e.type, message |-> e.message]
                ELSE error
    /\ pc' = "exit"

\* except Exception as exc: error = {...}; raise   (BaseException is not caught)
Except(where, e) ==
    /\ failure' = [where |-> where, exc |-> e]
    /\ exc' = e
    /\ error' = IF e.cls = "Exception"
                THEN [type |-> e.type, message |-> e.message]
                ELSE error
    /\ pc' = "finally"

\* artifacts = self.load_inputs(pipeline, ctx, **kwargs)
LoadInputs ==
    /\ pc = "load"
    /\ loads' = loads + 1
    /\ \/ /\ artifacts' = InputNames(pipeline)
          /\ pc' = "steps"
          /\ UNCHANGED <<exc, error, failure>>
       \/ /\ \E e \in CallbackErrors : Except("load_inputs", e)
          /\ UNCHANGED artifacts
    /\ UNCHANGED <<callvars, ctxvars, pipeline, verr, step_reports, invoked, out_calls, outputs, result,
                   manifest_calls, manifest_files, manifest_exc, outcome>>

\* The step the for-loop is at: one report is appended per finished iteration.
StepIndex == Len(step_reports) + 1

\* Variant: a failing step handler is called again (retry) instead of aborting.
ExecuteStep_Retry ==
    /\ pc = "steps"
    /\ StepIndex <= Len(pipeline.steps)
    /\ LET step == pipeline.steps[StepIndex] IN
         /\ invoked' = Append(invoked, step.id)
         /\ \/ /\ artifacts' = artifacts \cup Range(step.outputs)
               /\ step_reports' = Append(step_reports, step.id)
               /\ UNCHANGED <<exc, error, failure, pc>>
            \/ /\ Len(invoked) < MaxSteps + 1
               /\ \E e \in CallbackErrors : failure' = [where |-> "step", exc |-> e]
               /\ UNCHANGED <<artifacts, step_reports, exc, error, pc>>
    /\ UNCHANGED <<callvars, ctxvars, pipeline, verr, loads, out_calls, outputs, result,
                   manifest_calls, manifest_files, manifest_exc, outcome>>

\* step_report = self.execute_step(step, artifacts, ctx); step_reports.append(...)
ExecuteStep ==
    /\ pc = "steps"
    /\ StepIndex <= Len(pipeline.steps)
    /\ LET step == pipeline.steps[StepIndex] IN
         IF Range(step.inputs) \subseteq artifacts
         THEN /\ invoked' = Append(invoked, step.id)
              /\ \/ /\ artifacts' = artifacts \cup Range(step.outputs)
                    /\ step_reports' = Append(step_reports, step.id)
                    /\ UNCHANGED <<exc, error, failure, pc>>
                 \/ /\ \E e \in CallbackErrors : Except("step", e)
                    /\ UNCHANGED <<artifacts, step_reports>>
         ELSE \* _resolve_bound_input: KeyError before the handler is called
              /\ Except("resolve", Exc("Exception", "KeyError", "missing"))
              /\ UNCHANGED <<invoked, artifacts, step_reports>>
    /\ UNCHANGED <<callvars, ctxvars, pipeline, verr, loads, out_calls, outputs, result,
                   manifest_calls, manifest_files, manifest_exc, outcome>>

OutputTargets(p) == [i \in 1..Len(p.outputs) |-> p.outputs[i].target]

\* outputs = self.write_outputs(...); result = {...}
WriteOutputs ==
    /\ pc = "steps"
    /\ StepIndex > Len(pipeline.steps)
    /\ out_calls' = out_calls + 1
    /\ \/ /\ outputs' = OutputTargets(pipeline)
          /\ result' = [status |-> "success", steps |-> step_reports,
                        outputs |-> OutputTargets(pipeline), manifest_path |-> None]
          /\ pc' = "finally"
          /\ UNCHANGED <<exc, error, failure>>
       \/ /\ \E e \in CallbackErrors : Except("write_outputs", e)
          /\ UNCHANGED <<outputs, result>>
    /\ UNCHANGED <<callvars, ctxvars, pipeline, verr, artifacts, step_reports, invoked, loads,
                   manifest_calls, manifest_files, manifest_exc, outcome>>

\* Variant: the status does not look at `error`.
_build_manifest_payload_Success(reports, outs, err) ==
    [status |-> "success", steps |-> reports, outputs |-> outs, error |-> err]

\* Variant: the manifest of a failed run lists no steps.
_build_manifest_payload_NoStepsOnFailure(reports, outs, err) ==
    [status |-> IF err # NoError THEN "failed" ELSE "success",
     steps |-> IF err # NoError THEN <<>> ELSE reports, outputs |-> outs, error |-> err]

_build_manifest_payload(reports, outs, err) ==
    [status |-> IF err # NoError THEN "failed" ELSE "success",
     steps |-> reports, outputs |-> outs, error |-> err]

\* Variant: a failing write_manifest always propagates its own error.
WriteManifest_Propagates ==
    /\ pc = "finally"
    /\ manifest_calls' = manifest_calls + 1
    /\ \/ /\ manifest_files' =
                Append(manifest_files, _build_manifest_payload(step_reports, outputs, error))
          /\ result' = IF result # NoResult
                       THEN [result EXCEPT !.manifest_path = "manifest.json"]
                       ELSE result
          /\ UNCHANGED <<exc, manifest_exc>>
       \/ /\ \E m \in ManifestErrors : manifest_exc' = m /\ exc' = m
          /\ UNCHANGED <<manifest_files, result>>
    /\ pc' = "exit"
    /\ UNCHANGED <<callvars, ctxvars, pipeline, verr, artifacts, step_reports, invoked, loads, out_calls,
                   outputs, error, failure, outcome>>

\* finally: ... write_manifest(str(manifest_path), manifest_payload)
WriteManifest ==
    /\ pc = "finally"
    /\ manifest_calls' = manifest_calls + 1
    /\ \/ /\ manifest_files' =
                Append(manifest_files, _build_manifest_payload(step_reports, outputs, error))
          /\ result' = IF result # NoResult
                       THEN [result EXCEPT !.manifest_path = "manifest.json"]
                       ELSE result
          /\ UNCHANGED <<exc, manifest_exc>>
       \/ \* except Exception: if error is None: raise
          /\ \E m \in ManifestErrors :
                /\ manifest_exc' = m
                /\ exc' = IF error = NoError THEN m ELSE exc
          /\ UNCHANGED <<manifest_files, result>>
    /\ pc' = "exit"
    /\ UNCHANGED <<callvars, ctxvars, pipeline, verr, artifacts, step_reports, invoked, loads, out_calls,
                   outputs, error, failure, outcome>>

\* The exception in flight leaves run(); otherwise `return result`.
Exit ==
    /\ pc = "exit"
    /\ outcome' = IF exc # NoExc THEN Raised(exc)
                  ELSE IF result = NoResult THEN Raised(NoResultError)
                  ELSE Returned(result)
    /\ pc' = "done"
    /\ UNCHANGED <<callvars, ctxvars, pipeline, verr, runvars>>

Next == RunValidate \/ LoadInputs \/ ExecuteStep \/ WriteOutputs \/ WriteManifest \/ Exit

Spec == InitRun /\ [][Next]_vars

----------------------------------------------------------------------------
(* Properties of RunnerBase.run(), checked under Spec.                      *)

RunEnded == outcome.kind # "none"

StepIds(p) == [i \in 1..Len(p.steps) |-> p.steps[i].id]

\* The exception E of a callback that raised a subclass of Exception.
FailedWith(e) == failure.exc = e /\ e.cls = "Exception"

\* C1: in every run of a pipeline that passed validation, write_manifest is
\* performed exactly once before run() returns or raises, whichever of
\* load_inputs, the step handlers and write_outputs raised or succeeded; it is
\* never performed twice, and it leaves exactly one manifest unless the write
\* itself raised.
C1_ManifestWrittenOnce ==
    /\ manifest_calls <= 1
    /\ Len(manifest_files) <= manifest_calls
    /\ (RunEnded /\ ~verr.raised) =>
          /\ manifest_calls = 1
          /\ manifest_exc = NoExc => Len(manifest_files) = 1

\* A run whose first step handler raised has ended with one manifest on disk.
C1_Witness ==
    /\ pc = "done"
    /\ failure.where = "step"
    /\ manifest_calls = 1
    /\ Len(manifest_files) = 1

\* C2: when validation fails inside run(), run() raises the validation error
\* and nothing else has happened or happens: no load_inputs, no step handler,
\* no write_outputs, no write_manifest; nothing of the kind happens before
\* validation either.
C2_ValidationFailsFast ==
    (pc = "run" \/ verr.raised) =>
        /\ loads = 0
        /\ invoked = <<>>
        /\ out_calls = 0
        /\ manifest_calls = 0
        /\ manifest_files = <<>>
        /\ verr.raised => (pc = "done" /\ outcome = Raised(ValidationError))

\* An invalid pipeline was handed to run(), which raised.
C2_Witness ==
    /\ verr.raised
    /\ outcome = Raised(ValidationError)
    /\ manifest_calls = 0

C5_StepsInOrderNoRetry ==
    /\ Len(invoked) <= Len(pipeline.steps)
    /\ invoked = SubSeq(StepIds(pipeline), 1, Len(invoked))
    /\ SubSeq(invoked, 1, Len(step_reports)) = step_reports
    /\ failure.where = "step" =>
          /\ Len(invoked) = Len(step_reports) + 1
          /\ out_calls = 0
    /\ out_calls <= 1
    /\ out_calls = 1 =>
          /\ step_reports = StepIds(pipeline)
          /\ invoked = StepIds(pipeline)

\* The first of two step handlers raised; the run ended without calling the second.
C5_Witness ==
    /\ pc = "done"
    /\ Len(pipeline.steps) = 2
    /\ failure.where = "step"
    /\ invoked = <<"s1">>
    /\ out_calls = 0

----------------------------------------------------------------------------
(* Properties of Pipeline.validate(), checked under SpecValidate.           *)

Validated == pc # "validate" /\ pc # "run"

NumSteps == Len(pipeline.steps)

\* The names some step before step i lists as an output.
EarlierOutputs(i) == UNION {Range(pipeline.steps[j].outputs) : j \in 1..(i - 1)}

\* What step i may consume: the pipeline inputs and the earlier steps' outputs.
AvailableBefore(i) == InputNames(pipeline) \cup EarlierOutputs(i)

\* C6: for every step S and every name among S's inputs that is neither a
\* pipeline input nor an output of a step before S (a name only S itself or a
\* later step produces included), validate() raises and the error's
\* missing_inputs holds (S.id, name).
C6_MissingInputReported ==
    Validated =>
        \A i \in 1..NumSteps :
            \A n \in Range(pipeline.steps[i].inputs) \ AvailableBefore(i) :
                /\ verr.raised
                /\ <<pipeline.steps[i].id, n>> \in Range(verr.missing_inputs)

\* Step s1 consumes "a", which only the later step s2 produces.
C6_Witness ==
    /\ pc = "invalid"
    /\ NumSteps = 2
    /\ "a" \notin InputNames(pipeline)
    /\ pipeline.steps[1].inputs = <<"a">>
    /\ pipeline.steps[1].outputs # <<"a">>
    /\ pipeline.steps[2].outputs = <<"a">>
    /\ <<"s1", "a">> \in Range(verr.missing_inputs)

\* The owner validate() keeps for a name: the pipeline inputs come first, then
\* the earliest step that lists the name as an output.
FirstProducer(n) ==
    IF n \in InputNames(pipeline) THEN "pipeline input"
    ELSE pipeline.steps[CHOOSE i \in 1..NumSteps :
                            /\ n \in Range(pipeline.steps[i].outputs)
                            /\ \A j \in 1..(i - 1) : n \notin Range(pipeline.steps[j].outputs)].id

\* C7, as claimed: for every pair of steps producing the same name there is a
\* collision entry naming the later step and the other step of the pair, and
\* for every step producing a pipeline input's name an entry naming the step
\* and "pipeline input".
C7_Claimed ==
    Validated =>
        /\ \A i, j \in 1..NumSteps :
              (i < j) =>
                \A n \in Range(pipeline.steps[i].outputs) \cap Range(pipeline.steps[j].outputs) :
                    /\ verr.raised
                    /\ <<pipeline.steps[j].id, n, pipeline.steps[i].id>>
                          \in Range(verr.output_collisions)
        /\ \A i \in 1..NumSteps :
              \A n \in Range(pipeline.steps[i].outputs) \cap InputNames(pipeline) :
                    /\ verr.raised
                    /\ <<pipeline.steps[i].id, n, "pipeline input">>
                          \in Range(verr.output_collisions)

\* C7, amended: every step that lists as an output a name already owned (a
\* pipeline input's name, or an output of an earlier step) makes validate()
\* raise with the entry (step, name, owner), the owner being the first
\* producer of the name; it is the other step of a pair only when that step
\* is the first producer.
C7_CollisionNamesFirstProducer ==
    Validated =>
        \A j \in 1..NumSteps :
            \A n \in Range(pipeline.steps[j].outputs) \cap AvailableBefore(j) :
                /\ verr.raised
                /\ <<pipeline.steps[j].id, n, FirstProducer(n)>>
                      \in Range(verr.output_collisions)

\* Two steps produce "a", which is also a pipeline input: both entries name
\* "pipeline input", none names the pair.
C7_Witness ==
    /\ pc = "invalid"
    /\ NumSteps = 2
    /\ "a" \in InputNames(pipeline)
    /\ pipeline.steps[1].outputs = <<"a">>
    /\ pipeline.steps[2].outputs = <<"a">>
    /\ <<"s2", "a", "pipeline input">> \in Range(verr.output_collisions)
    /\ <<"s2", "a", "s1">> \notin Range(verr.output_collisions)

\* The violations of a pipeline, category by category, read off its definition.
LacksCapability(step) ==
    \/ pipeline.execution_mode = "batch" /\ ~step.supports_batch
    \/ pipeline.execution_mode = "stream" /\ ~step.supports_stream

IsCsv(artifact) == Lower(Strip(artifact.kind)) = <<"c", "s", "v">>

ModeViolations ==
    IF pipeline.execution_mode \in {"batch", "stream"} THEN {}
    ELSE {<<"mode", pipeline.execution_mode>>}

StepViolations ==
    {<<"step", pipeline.steps[i].id, pipeline.execution_mode>> :
        i \in {k \in 1..NumSteps : LacksCapability(pipeline.steps[k])}}

InputViolations ==
    {<<"input", a.name, a.combine_strategy>> :
        a \in {x \in Range(pipeline.inputs) :
                 /\ pipeline.execution_mode = "stream"
                 /\ IsCsv(x)
                 /\ x.combine_strategy # CONCAT}}

MissingViolations ==
    UNION {{<<"missing", pipeline.steps[i].id, n>> :
               n \in Range(pipeline.steps[i].inputs) \ AvailableBefore(i)} :
           i \in 1..NumSteps}

ConsumedNames == UNION {Range(pipeline.steps[i].inputs) \cap AvailableBefore(i) : i \in 1..NumSteps}

UnusedViolations ==
    {<<"unused", a.name>> :
        a \in {x \in Range(pipeline.inputs) :
                 x.name \notin ConsumedNames /\ x.required = BoolFlag(TRUE)}}

CollisionViolations ==
    UNION {{<<"collision", pipeline.steps[j].id, n>> :
               n \in Range(pipeline.steps[j].outputs) \cap AvailableBefore(j)} :
           j \in 1..NumSteps}

UnknownOutputViolations ==
    {<<"output", o.target, o.source>> :
        o \in {x \in Range(pipeline.outputs) :
                 x.source \notin AvailableBefore(NumSteps + 1)}}

Violations ==
    ModeViolations \cup StepViolations \cup InputViolations \cup MissingViolations
        \cup UnusedViolations \cup CollisionViolations \cup UnknownOutputViolations

\* C8: a pipeline with several violations makes validate() raise one error
\* whose fields hold every violation of every category: the invalid mode, each
\* step lacking the mode's capability, each stream-incompatible input, each
\* missing input, each unused input, each output collision and each unknown
\* output source.
C8_AllViolationsReported ==
    (Validated /\ Cardinality(Violations) >= 2) =>
        /\ verr.raised
        /\ \A v \in ModeViolations : verr.invalid_execution_mode = v[2]
        /\ \A v \in StepViolations : <<v[2], v[3]>> \in Range(verr.incompatible_steps)
        /\ \A v \in InputViolations : <<v[2], v[3]>> \in Range(verr.incompatible_inputs)
        /\ \A v \in MissingViolations : <<v[2], v[3]>> \in Range(verr.missing_inputs)
        /\ \A v \in UnusedViolations : v[2] \in Range(verr.unused_inputs)
        /\ \A v \in CollisionViolations :
              \E e \in Range(verr.output_collisions) : e[1] = v[2] /\ e[2] = v[3]
        /\ \A v \in UnknownOutputViolations :
              <<v[2], v[3]>> \in Range(verr.unknown_output_bindings)

\* A pipeline violating five categories at once, all of them in the error.
C8_Witness ==
    /\ pc = "invalid"
    /\ StepViolations # {}
    /\ InputViolations # {}
    /\ MissingViolations # {}
    /\ CollisionViolations # {}
    /\ UnknownOutputViolations # {}
    /\ verr.incompatible_steps # <<>>
    /\ verr.incompatible_inputs # <<>>
    /\ verr.missing_inputs # <<>>
    /\ verr.output_collisions # <<>>
    /\ verr.unknown_output_bindings # <<>>

\* C9: in batch and in stream mode, incompatible_steps holds (step.id, mode)
\* for exactly the steps lacking the mode's capability, once each; it is empty
\* exactly when every step has the capability, and a step lacking it makes
\* validate() raise.
C9_ModeCapabilities ==
    (Validated /\ pipeline.execution_mode \in {"batch", "stream"}) =>
        LET lacking == {i \in 1..NumSteps : LacksCapability(pipeline.steps[i])} IN
        /\ lacking # {} => verr.raised
        /\ Range(verr.incompatible_steps) =
              {<<pipeline.steps[i].id, pipeline.execution_mode>> : i \in lacking}
        /\ Len(verr.incompatible_steps) = Cardinality(lacking)

\* A batch pipeline whose second step only lacks supports_batch.
C9_Witness ==
    /\ pc = "invalid"
    /\ pipeline.execution_mode = "batch"
    /\ NumSteps = 2
    /\ pipeline.steps[1].supports_batch
    /\ ~pipeline.steps[2].supports_batch
    /\ verr.incompatible_steps = << <<"s2", "batch">> >>

----------------------------------------------------------------------------
(* Stream-mode input validation, checked under Spec (validate() inside run()). *)

\* run() stopped at validate(): nothing loaded, executed or written.
NeverRun ==
    /\ pc = "done"
    /\ outcome = Raised(ValidationError)
    /\ loads = 0
    /\ invoked = <<>>
    /\ out_calls = 0
    /\ manifest_calls = 0

----------------------------------------------------------------------------
(* Unused pipeline inputs: validate() over inputs carrying every kind of      *)
(* metadata["required"] marking.                                             *)

\* metadata["required"] markings that say "false": False, 0 and the strings
\* false / 0 / no in any letter case.
FalseMarkings ==
    {BoolFlag(FALSE), IntFlag(0), StrFlag(<<"f", "a", "l", "s", "e">>),
     StrFlag(<<"F", "a", "l", "s", "e">>), StrFlag(<<"0">>), StrFlag(<<"N", "O">>)}

\* Every other marking: absent, True, a non-zero number, any other string.
OtherMarkings ==
    {AbsentFlag, BoolFlag(TRUE), IntFlag(1), StrFlag(<<"y", "e", "s">>), StrFlag(<<>>)}

MarkedInputDicts ==
    LET flags == FalseMarkings \cup OtherMarkings
        art(n, f) == Artifact(n, << <<"c", "s", "v">>, CONCAT, f >>)
    IN {<<>>}
         \cup {<<art(n, f)>> : n \in Names, f \in flags}
         \cup {<<art(n1, f1), art(n2, f2)>> :
                 <<n1, n2>> \in {<<"a", "b">>, <<"b", "a">>}, f1 \in flags, f2 \in flags}

\* Batch-capable steps, as the step lists of a batch pipeline that can pass.
BatchStepLists ==
    {[i \in 1..Len(bs) |-> MkStep(i, bs[i], FALSE)] :
        bs \in SeqsUpTo({b \in StepBodies : b.supports_batch /\ ~b.supports_stream},
                        MaxSteps)}

InitUnused ==
    /\ \E ins \in MarkedInputDicts, sts \in BatchStepLists :
          pipeline = Pipeline("batch", ins, sts, <<>>)
    /\ pc = "validate"
    /\ verr = NoValidationError
    /\ outcome = NotStarted
    /\ RunIdle
    /\ CtxIdle
    /\ CallIdle

SpecUnused == InitUnused /\ [][NextValidate]_vars

\* The pipeline inputs some step lists among its inputs.
ConsumedInputs ==
    {a \in Range(pipeline.inputs) :
        \E i \in 1..NumSteps : a.name \in Range(pipeline.steps[i].inputs)}

\* C11: unused_inputs holds, once each and sorted, exactly the names of the
\* pipeline inputs that no step consumes and whose "required" marking is not
\* a false one; an input marked non-required is never in it, an input some
\* step consumes is never in it, and a non-empty list makes validate() raise.
C11_UnusedInputsExact ==
    Validated =>
        LET unused == {a.name : a \in {x \in Range(pipeline.inputs) \ ConsumedInputs :
                                          x.required \notin FalseMarkings}}
        IN /\ Range(verr.unused_inputs) = unused
           /\ Len(verr.unused_inputs) = Cardinality(unused)
           /\ unused # {} => verr.raised
           /\ \A a \in Range(pipeline.inputs) :
                 (a.required \in FalseMarkings \/ a \in ConsumedInputs)
                    => a.name \notin Range(verr.unused_inputs)

\* Two inputs nobody consumes: "a" marked required: "False" is left out, "b"
\* without a marking is reported.
C11_Witness ==
    /\ pc = "invalid"
    /\ Len(pipeline.inputs) = 2
    /\ InputNamed(pipeline, "a").required = StrFlag(<<"F", "a", "l", "s", "e">>)
    /\ InputNamed(pipeline, "b").required = AbsentFlag
    /\ ConsumedInputs = {}
    /\ verr.unused_inputs = <<"b">>

----------------------------------------------------------------------------
(* validate() called twice, checked under SpecValidate.                      *)

----------------------------------------------------------------------------
(* Python values as binding values and step data, and input binding          *)
(* resolution (_resolve_bound_input, trakt/runtime/runner_base.py).          *)

Str(x) == <<"str", x>>
Const(v) == <<"Const", v>>
List(items) == <<"list", items>>
Tuple(items) == <<"tuple", items>>
\* A dict: its (key, value) items in insertion order, the keys distinct.
Dict(items) == <<"dict", items>>
Bool(b) == <<"bool", b>>
IntValue(n) == <<"int", n>>
NoneValue == <<"none", 0>>
\* A value of a type no binding rule knows (a set, an object).
Object(x) == <<"object", x>>
\* A loaded artifact (a data frame).
Frame(x) == <<"frame", x>>

\* raise <type>(... <what> ...)
Raise(type, what) == <<"raise", type, what>>
IsRaise(r) == r[1] = "raise"

\* The first raised exception among the results of a comprehension, if any.
FirstRaise(rs) ==
    rs[CHOOSE i \in 1..Len(rs) : IsRaise(rs[i]) /\ \A j \in 1..(i - 1) : ~IsRaise(rs[j])]

AnyRaise(rs) == \E i \in 1..Len(rs) : IsRaise(rs[i])

is_const_binding(value) ==
    \/ value[1] = "Const"
    \/ value[1] = "dict" /\ Len(value[2]) = 1 /\ value[2][1][1] = "const"

get_const_binding_value(value) ==
    IF value[1] = "Const" THEN value[2] ELSE value[2][1][2]

\* Variant: the payload of a const wrapper is resolved like any other binding.
RECURSIVE _resolve_bound_input_ConstLookup(_, _)
_resolve_bound_input_ConstLookup(bound_name, namespace) ==
    IF is_const_binding(bound_name)
    THEN _resolve_bound_input_ConstLookup(get_const_binding_value(bound_name), namespace)
    ELSE IF bound_name[1] = "str"
    THEN IF bound_name[2] \notin DOMAIN namespace
         THEN bound_name
         ELSE namespace[bound_name[2]]
    ELSE IF bound_name[1] \in {"list", "tuple"}
    THEN LET rs == [i \in 1..Len(bound_name[2]) |->
                      _resolve_bound_input_ConstLookup(bound_name[2][i], namespace)]
         IN IF AnyRaise(rs) THEN FirstRaise(rs) ELSE <<bound_name[1], rs>>
    ELSE IF bound_name[1] = "dict"
    THEN LET rs == [i \in 1..Len(bound_name[2]) |->
                      _resolve_bound_input_ConstLookup(bound_name[2][i][2], namespace)]
         IN IF AnyRaise(rs) THEN FirstRaise(rs)
            ELSE Dict([i \in 1..Len(rs) |-> <<bound_name[2][i][1], rs[i]>>])
    ELSE IF bound_name[1] \in {"bool", "int", "none"}
    THEN bound_name
    ELSE Raise("TypeError", bound_name)

\* _resolve_bound_input(bound_name, namespace, step_id)
RECURSIVE _resolve_bound_input(_, _)
_resolve_bound_input(bound_name, namespace) ==
    IF is_const_binding(bound_name)
    THEN get_const_binding_value(bound_name)
    ELSE IF bound_name[1] = "str"
    THEN IF bound_name[2] \notin DOMAIN namespace
         THEN Raise("KeyError", bound_name[2])
         ELSE namespace[bound_name[2]]
    ELSE IF bound_name[1] \in {"list", "tuple"}
    THEN LET rs == [i \in 1..Len(bound_name[2]) |->
                      _resolve_bound_input(bound_name[2][i], namespace)]
         IN IF AnyRaise(rs) THEN FirstRaise(rs) ELSE <<bound_name[1], rs>>
    ELSE IF bound_name[1] = "dict"
    THEN LET rs == [i \in 1..Len(bound_name[2]) |->
                      _resolve_bound_input(bound_name[2][i][2], namespace)]
         IN IF AnyRaise(rs) THEN FirstRaise(rs)
            ELSE Dict([i \in 1..Len(rs) |-> <<bound_name[2][i][1], rs[i]>>])
    ELSE IF bound_name[1] \in {"bool", "int", "none"}
    THEN bound_name
    ELSE Raise("TypeError", bound_name)

\* The bindings explored: leaves, then lists, tuples and dicts of leaves, then
\* lists and dicts of those.
BindingLeaves ==
    {Str("a"), Str("b"), Str("lit"), Const(Str("a")), Const(List(<<Str("b")>>)),
     Dict(<< <<"const", Str("a")>> >>), Bool(TRUE), IntValue(1), NoneValue, Object("set")}

BindingKeyOrder == <<"x", "y">>

FlatBindings ==
    BindingLeaves
      \cup {List(items) : items \in SeqsUpTo(BindingLeaves, 2)}
      \cup {Tuple(items) : items \in SeqsUpTo({Str("a"), Str("lit")}, 2)}
      \cup {Dict([i \in 1..Len(vs) |-> <<BindingKeyOrder[i], vs[i]>>]) :
              vs \in SeqsUpTo(BindingLeaves, 2)}

NestedParts ==
    {Str("a"), List(<<Str("a"), Str("b")>>), List(<<Str("lit")>>),
     Dict(<< <<"x", Str("b")>> >>), Dict(<< <<"const", Str("b")>> >>)}

Bindings ==
    FlatBindings
      \cup {List(items) : items \in SeqsUpTo(NestedParts, 2)}
      \cup {Dict([i \in 1..Len(vs) |-> <<BindingKeyOrder[i], vs[i]>>]) :
              vs \in SeqsUpTo(NestedParts, 2)}

\* The artifact namespaces: every name bound to one of two frames.
Namespaces == UNION {[S -> {Frame(1), Frame(2)}] : S \in SUBSET Names}

InitResolve ==
    /\ \E b \in Bindings, ns \in Namespaces :
          args = [fn |-> "_resolve_bound_input", bound_name |-> b, artifacts |-> ns]
    /\ ret = NoCall
    /\ pc = "call"
    /\ pipeline = Pipeline("batch", <<>>, <<>>, <<>>)
    /\ verr = NoValidationError
    /\ outcome = NotStarted
    /\ RunIdle
    /\ CtxIdle

ResolveBoundInput ==
    /\ pc = "call"
    /\ args.fn = "_resolve_bound_input"
    /\ ret' = _resolve_bound_input(args.bound_name, args.artifacts)
    /\ pc' = "returned"
    /\ UNCHANGED <<args, ctxvars, pipeline, verr, outcome, runvars>>

NextResolve == ResolveBoundInput

SpecResolve == InitResolve /\ [][NextResolve]_vars

\* The names a binding refers to: its strings outside any const wrapper.
RECURSIVE Refs(_)
Refs(b) ==
    IF is_const_binding(b) THEN {}
    ELSE IF b[1] = "str" THEN {b[2]}
    ELSE IF b[1] \in {"list", "tuple"} THEN UNION {Refs(b[2][i]) : i \in 1..Len(b[2])}
    ELSE IF b[1] = "dict" THEN UNION {Refs(b[2][i][2]) : i \in 1..Len(b[2])}
    ELSE {}

\* Whether a binding holds, outside any const wrapper, a value of unknown type.
RECURSIVE HasUnsupported(_)
HasUnsupported(b) ==
    IF is_const_binding(b) THEN FALSE
    ELSE IF b[1] \in {"list", "tuple"} THEN \E i \in 1..Len(b[2]) : HasUnsupported(b[2][i])
    ELSE IF b[1] = "dict" THEN \E i \in 1..Len(b[2]) : HasUnsupported(b[2][i][2])
    ELSE b[1] = "object"

\* C13: _resolve_bound_input returns, for a const wrapper (Const(...) or a
\* mapping whose only key is "const"), the payload as it is, whatever the
\* namespace holds; for a string the namespace value of that name; for a list
\* the resolutions of its elements in the same order; for a mapping the
\* resolutions of its values under the same keys; for a bool, a number or
\* None the value itself; and it raises KeyError naming a referenced string
\* exactly when some referenced string is not in the namespace.
C13_BindingResolution ==
    (pc = "returned" /\ args.fn = "_resolve_bound_input") =>
        LET b == args.bound_name
            ns == args.artifacts
        IN /\ b[1] = "Const" => ret = b[2]
           /\ (b[1] = "dict" /\ Len(b[2]) = 1 /\ b[2][1][1] = "const") => ret = b[2][1][2]
           /\ (b[1] = "str" /\ b[2] \in DOMAIN ns) => ret = ns[b[2]]
           /\ (b[1] = "list" /\ ~IsRaise(ret)) =>
                 /\ ret[1] = "list"
                 /\ Len(ret[2]) = Len(b[2])
                 /\ \A i \in 1..Len(b[2]) : ret[2][i] = _resolve_bound_input(b[2][i], ns)
           /\ (b[1] = "list" /\ \A i \in 1..Len(b[2]) :
                                   b[2][i][1] = "str" /\ b[2][i][2] \in DOMAIN ns) =>
                 ret = List([i \in 1..Len(b[2]) |-> ns[b[2][i][2]]])
           /\ (b[1] = "dict" /\ ~is_const_binding(b) /\ ~IsRaise(ret)) =>
                 /\ ret[1] = "dict"
                 /\ Len(ret[2]) = Len(b[2])
                 /\ \A i \in 1..Len(b[2]) :
                       /\ ret[2][i][1] = b[2][i][1]
                       /\ ret[2][i][2] = _resolve_bound_input(b[2][i][2], ns)
           /\ b[1] \in {"bool", "int", "none"} => ret = b
           /\ ~HasUnsupported(b) =>
                 /\ IsRaise(ret) <=> ~(Refs(b) \subseteq DOMAIN ns)
                 /\ IsRaise(ret) => (ret[2] = "KeyError" /\ ret[3] \in Refs(b) \ DOMAIN ns)

\* A mapping {x: [a, b], y: {const: b}} resolved against a namespace holding
\* a and b: the frames in order under x, the literal string "b" under y.
C13_Witness ==
    /\ pc = "returned"
    /\ args.fn = "_resolve_bound_input"
    /\ args.bound_name = Dict(<< <<"x", List(<<Str("a"), Str("b")>>)>>,
                                 <<"y", Dict(<< <<"const", Str("b")>> >>)>> >>)
    /\ DOMAIN args.artifacts = {"a", "b"}
    /\ args.artifacts["a"] # args.artifacts["b"]
    /\ ret = Dict(<< <<"x", List(<<args.artifacts["a"], args.artifacts["b"]>>)>>,
                     <<"y", Str("b")>> >>)

----------------------------------------------------------------------------
(* ResolvedStep.from_definition and validate_bindings, trakt/core/steps.py.  *)

\* dict helpers on Dict(items).
DictKeys(d) == {d[2][i][1] : i \in 1..Len(d[2])}
DictGet(d, k) == d[2][CHOOSE i \in 1..Len(d[2]) : d[2][i][1] = k][2]

\* list(dict.fromkeys(names)): first occurrences, in order.
RECURSIVE DedupeNames(_, _, _)
DedupeNames(names, i, acc) ==
    IF i > Len(names) THEN acc
    ELSE DedupeNames(names, i + 1,
            IF names[i] \in Range(acc) THEN acc ELSE Append(acc, names[i]))

\* Variant: a const literal is accepted as an output binding and names nothing.
_coerce_output_binding_values_AllowConst(value) ==
    IF is_const_binding(value) THEN <<"names", <<>>>>
    ELSE IF value[1] = "str" THEN <<"names", <<value[2]>>>>
    ELSE IF value[1] = "list"
    THEN IF \A i \in 1..Len(value[2]) : value[2][i][1] = "str"
         THEN <<"names", [i \in 1..Len(value[2]) |-> value[2][i][2]]>>
         ELSE Raise("StepBindingError", "must contain only strings")
    ELSE IF value[1] = "dict"
    THEN IF \A i \in 1..Len(value[2]) : value[2][i][2][1] = "str"
         THEN <<"names", [i \in 1..Len(value[2]) |-> value[2][i][2][2]]>>
         ELSE Raise("StepBindingError", "must map to string values")
    ELSE Raise("StepBindingError", "must be a string, list, or mapping")

\* _coerce_output_binding_values(value, step_id, key): the target names, or raise.
_coerce_output_binding_values(value) ==
    IF is_const_binding(value)
    THEN Raise("StepBindingError", "cannot use const literals")
    ELSE IF value[1] = "str" THEN <<"names", <<value[2]>>>>
    ELSE IF value[1] = "list"
    THEN IF \A i \in 1..Len(value[2]) : value[2][i][1] = "str"
         THEN <<"names", [i \in 1..Len(value[2]) |-> value[2][i][2]]>>
         ELSE Raise("StepBindingError", "must contain only strings")
    ELSE IF value[1] = "dict"
    THEN IF \A i \in 1..Len(value[2]) : value[2][i][2][1] = "str"
         THEN <<"names", [i \in 1..Len(value[2]) |-> value[2][i][2][2]]>>
         ELSE Raise("StepBindingError", "must map to string values")
    ELSE Raise("StepBindingError", "must be a string, list, or mapping")

\* _collect_input_artifact_refs(value, step_id, key): the referenced names, or raise.
RECURSIVE _collect_input_artifact_refs(_)
_collect_input_artifact_refs(value) ==
    IF is_const_binding(value) THEN <<"names", <<>>>>
    ELSE IF value[1] = "str" THEN <<"names", <<value[2]>>>>
    ELSE IF value[1] \in {"bool", "int", "none"} THEN <<"names", <<>>>>
    ELSE IF value[1] \in {"list", "tuple", "dict"}
    THEN LET items == IF value[1] = "dict"
                      THEN [i \in 1..Len(value[2]) |-> value[2][i][2]]
                      ELSE value[2]
             rs == [i \in 1..Len(items) |-> _collect_input_artifact_refs(items[i])]
             cat[i \in 0..Len(rs)] == IF i = 0 THEN <<>> ELSE cat[i - 1] \o rs[i][2]
         IN IF AnyRaise(rs) THEN FirstRaise(rs) ELSE <<"names", cat[Len(rs)]>>
    ELSE Raise("StepBindingError", "unsupported input binding type")

\* A ResolvedStep before its bindings are validated.
NewResolvedStep(step_id, declared_inputs, declared_outputs, bindings) ==
    [id |-> step_id, declared_inputs |-> declared_inputs,
     declared_outputs |-> declared_outputs, bindings |-> bindings,
     inputs |-> <<>>, outputs |-> <<>>]

\* ResolvedStep._output_binding_keys()
_output_binding_keys(step) ==
    IF step.declared_outputs # <<>> THEN Range(step.declared_outputs)
    ELSE {"output", "outputs"} \cap DictKeys(step.bindings)

\* ResolvedStep.input_bindings(): (key, value) items in order.
input_bindings(step) ==
    IF step.declared_inputs # <<>>
    THEN LET present == SelectSeq(step.declared_inputs,
                                  LAMBDA n : n \in DictKeys(step.bindings))
         IN [i \in 1..Len(present) |-> <<present[i], DictGet(step.bindings, present[i])>>]
    ELSE SelectSeq(step.bindings[2], LAMBDA it : it[1] \notin _output_binding_keys(step))

\* ResolvedStep.output_bindings(): (key, value) items in order.
output_bindings(step) ==
    IF step.declared_outputs # <<>>
    THEN LET present == SelectSeq(step.declared_outputs,
                                  LAMBDA n : n \in DictKeys(step.bindings))
         IN [i \in 1..Len(present) |-> <<present[i], DictGet(step.bindings, present[i])>>]
    ELSE LET present == SelectSeq(<<"output", "outputs">>,
                                  LAMBDA n : n \in DictKeys(step.bindings))
         IN [i \in 1..Len(present) |-> <<present[i], DictGet(step.bindings, present[i])>>]

\* ResolvedStep.validate_bindings(): None, or the StepBindingError it raises.
validate_bindings(step) ==
    LET declared == Range(step.declared_inputs) \cup Range(step.declared_outputs)
        unknown_bindings == IF declared # {} THEN DictKeys(step.bindings) \ declared ELSE {}
        missing_inputs == Range(step.declared_inputs) \ DictKeys(step.bindings)
        missing_outputs == Range(step.declared_outputs) \ DictKeys(step.bindings)
        outs == output_bindings(step)
        ins == input_bindings(step)
        out_rs == [i \in 1..Len(outs) |-> _coerce_output_binding_values(outs[i][2])]
        in_rs == [i \in 1..Len(ins) |-> _collect_input_artifact_refs(ins[i][2])]
    IN IF Range(step.declared_inputs) \cap Range(step.declared_outputs) # {}
       THEN Raise("StepBindingError", "same name as input and output")
       ELSE IF missing_inputs # {} \/ missing_outputs # {} \/ unknown_bindings # {}
       THEN Raise("StepBindingError", "binding error")
       ELSE IF AnyRaise(out_rs) THEN FirstRaise(out_rs)
       ELSE IF AnyRaise(in_rs) THEN FirstRaise(in_rs)
       ELSE NoneValue

\* ResolvedStep._resolve_bound_inputs() / _resolve_bound_outputs(), on bindings
\* that validate_bindings() accepted.
_resolve_bound_inputs(step) ==
    LET ins == input_bindings(step)
        cat[i \in 0..Len(ins)] ==
            IF i = 0 THEN <<>> ELSE cat[i - 1] \o _collect_input_artifact_refs(ins[i][2])[2]
    IN DedupeNames(cat[Len(ins)], 1, <<>>)

_resolve_bound_outputs(step) ==
    LET outs == output_bindings(step)
        cat[i \in 0..Len(outs)] ==
            IF i = 0 THEN <<>> ELSE cat[i - 1] \o _coerce_output_binding_values(outs[i][2])[2]
    IN DedupeNames(cat[Len(outs)], 1, <<>>)

\* ResolvedStep.from_definition(step_id, uses, handler, bindings): the step,
\* or the StepBindingError raised by validate_bindings().
from_definition(step_id, declared_inputs, declared_outputs, bindings) ==
    LET step == NewResolvedStep(step_id, declared_inputs, declared_outputs, bindings)
        v == validate_bindings(step)
    IN IF IsRaise(v) THEN v
       ELSE <<"step", [step EXCEPT !.inputs = _resolve_bound_inputs(step),
                                   !.outputs = _resolve_bound_outputs(step)]>>

\* The definitions explored: the handler's declared names (no duplicates, as
\* step_contract leaves them) and the bindings of the step definition.
BindingKeys == <<"input", "output", "outputs">>

DeclaredNameLists ==
    {ns \in SeqsUpTo(Range(BindingKeys), 2) : \A i, j \in 1..Len(ns) : i # j => ns[i] # ns[j]}

DefinitionValues ==
    {Str("a"), Const(Str("a")), Dict(<< <<"const", Str("b")>> >>),
     List(<<Str("a"), Str("b")>>), List(<<Str("a"), Const(Str("b"))>>),
     Dict(<< <<"x", Str("b")>> >>), Object("set")}

DefinitionBindings ==
    {Dict(SelectSeq([i \in 1..Len(BindingKeys) |-> <<BindingKeys[i], vs[i]>>],
                    LAMBDA it : it[2] # NoneValue)) :
        vs \in [1..Len(BindingKeys) -> DefinitionValues \cup {NoneValue}]}

InitDefinition ==
    /\ \E dins \in DeclaredNameLists, douts \in DeclaredNameLists, b \in DefinitionBindings :
          args = [fn |-> "from_definition", declared_inputs |-> dins,
                  declared_outputs |-> douts, bindings |-> b]
    /\ ret = NoCall
    /\ pc = "call"
    /\ pipeline = Pipeline("batch", <<>>, <<>>, <<>>)
    /\ verr = NoValidationError
    /\ outcome = NotStarted
    /\ RunIdle
    /\ CtxIdle

FromDefinition ==
    /\ pc = "call"
    /\ args.fn = "from_definition"
    /\ ret' = from_definition("s1", args.declared_inputs, args.declared_outputs,
                              args.bindings)
    /\ pc' = "returned"
    /\ UNCHANGED <<args, ctxvars, pipeline, verr, outcome, runvars>>

NextDefinition == FromDefinition

SpecDefinition == InitDefinition /\ [][NextDefinition]_vars

\* The bindings of a definition that bind outputs: those under the declared
\* output names, or under "output" / "outputs" when no output is declared.
OutputBindingValues ==
    LET keys == IF args.declared_outputs # <<>> THEN Range(args.declared_outputs)
                ELSE {"output", "outputs"}
    IN {DictGet(args.bindings, k) : k \in keys \cap DictKeys(args.bindings)}

DefinitionViolation ==
    \/ Range(args.declared_inputs) \cap Range(args.declared_outputs) # {}
    \/ ~((Range(args.declared_inputs) \cup Range(args.declared_outputs))
            \subseteq DictKeys(args.bindings))
    \/ \E v \in OutputBindingValues : v[1] = "Const" \/ (v[1] = "dict" /\ DictKeys(v) = {"const"})

\* C14: a step returned by from_definition has disjoint declared input and
\* output names, a binding for every declared name and no const literal as an
\* output binding; a definition violating one of the three raises
\* StepBindingError and no step is returned.
C14_FromDefinitionInvariants ==
    (pc = "returned" /\ args.fn = "from_definition") =>
        /\ DefinitionViolation => (IsRaise(ret) /\ ret[2] = "StepBindingError")
        /\ ret[1] = "step" =>
              LET step == ret[2] IN
              /\ Range(step.declared_inputs) \cap Range(step.declared_outputs) = {}
              /\ \A n \in Range(step.declared_inputs) \cup Range(step.declared_outputs) :
                    n \in DictKeys(step.bindings)
              /\ \A i \in 1..Len(output_bindings(step)) :
                    ~is_const_binding(output_bindings(step)[i][2])
              /\ step.declared_inputs = args.declared_inputs
              /\ step.declared_outputs = args.declared_outputs
              /\ step.bindings = args.bindings

\* A handler declaring input "input" and output "output", the output bound to
\* a YAML {const: b} literal: StepBindingError.
C14_Witness ==
    /\ pc = "returned"
    /\ args.fn = "from_definition"
    /\ args.declared_inputs = <<"input">>
    /\ args.declared_outputs = <<"output">>
    /\ DictKeys(args.bindings) = {"input", "output"}
    /\ DictGet(args.bindings, "input") = Str("a")
    /\ DictGet(args.bindings, "output") = Dict(<< <<"const", Str("b")>> >>)
    /\ ret = Raise("StepBindingError", "cannot use const literals")

----------------------------------------------------------------------------
(* RunnerBase.execute_step and its helpers, trakt/runtime/runner_base.py.    *)

DictHas(d, k) == k \in DictKeys(d)

\* d[k] = v on an insertion-ordered dict.
DictSet(d, k, v) ==
    IF DictHas(d, k)
    THEN Dict([i \in 1..Len(d[2]) |-> IF d[2][i][1] = k THEN <<k, v>> ELSE d[2][i]])
    ELSE Dict(Append(d[2], <<k, v>>))

\* {key: value for key, value in d.items() if key != k}
DictWithout(d, k) == Dict(SelectSeq(d[2], LAMBDA it : it[1] # k))

\* Variant: the namespace is replaced by the step's outputs.
NamespaceUpdate_Replace(namespace, materialized) ==
    [n \in DictKeys(materialized) |-> DictGet(materialized, n)]

\* artifacts.update(materialized) on the namespace (a function of the names).
NamespaceUpdate(namespace, materialized) ==
    [n \in DOMAIN namespace \cup DictKeys(materialized) |->
        IF DictHas(materialized, n) THEN DictGet(materialized, n) ELSE namespace[n]]

\* Variant: a sum of 0 is reported like no known count at all.
SumCounts_ZeroIsUnknown(counts) ==
    LET total[i \in 0..Len(counts)] ==
            IF i = 0 THEN 0
            ELSE total[i - 1] + (IF counts[i] = NoneValue THEN 0 ELSE counts[i][2])
    IN IF total[Len(counts)] = 0 THEN NoneValue ELSE IntValue(total[Len(counts)])

\* The sum of the counts that are not None, or None when there is none.
SumCounts(counts) ==
    LET total[i \in 0..Len(counts)] ==
            IF i = 0 THEN 0
            ELSE total[i - 1] + (IF counts[i] = NoneValue THEN 0 ELSE counts[i][2])
    IN IF \A i \in 1..Len(counts) : counts[i] = NoneValue
       THEN NoneValue
       ELSE IntValue(total[Len(counts)])

\* _count_rows(payload): len() of a frame; a mapping, list or tuple sums the
\* counts of its members; str, None and values without len() count as None.
RECURSIVE _count_rows(_)
_count_rows(payload) ==
    IF payload[1] \in {"none", "str"} THEN NoneValue
    ELSE IF payload[1] = "dict"
    THEN SumCounts([i \in 1..Len(payload[2]) |-> _count_rows(payload[2][i][2])])
    ELSE IF payload[1] \in {"list", "tuple"}
    THEN SumCounts([i \in 1..Len(payload[2]) |-> _count_rows(payload[2][i])])
    ELSE IF payload[1] = "frame" THEN IntValue(payload[2])
    ELSE NoneValue

metrics_key == "__metrics__"

\* Variant: the metrics are read but the reserved key stays in the payload.
_extract_step_metrics_KeepKey(raw_result) ==
    IF raw_result[1] # "dict" THEN Raise("TypeError", "must return a dict")
    ELSE IF ~DictHas(raw_result, metrics_key) THEN <<"pair", raw_result, Dict(<<>>)>>
    ELSE IF DictGet(raw_result, metrics_key)[1] # "dict"
    THEN Raise("TypeError", "metrics must be a mapping")
    ELSE <<"pair", raw_result, DictGet(raw_result, metrics_key)>>

\* _extract_step_metrics(step_id, raw_result): (payload, metrics), or raise.
_extract_step_metrics(raw_result) ==
    IF raw_result[1] # "dict" THEN Raise("TypeError", "must return a dict")
    ELSE IF ~DictHas(raw_result, metrics_key) THEN <<"pair", raw_result, Dict(<<>>)>>
    ELSE IF DictGet(raw_result, metrics_key)[1] # "dict"
    THEN Raise("TypeError", "metrics must be a mapping")
    ELSE <<"pair", DictWithout(raw_result, metrics_key), DictGet(raw_result, metrics_key)>>

\* Variant: a list target takes as many values as there are, without the
\* length check.
_apply_output_binding_NoLengthCheck(source_value, target_binding, collector) ==
    IF target_binding[1] = "str" THEN DictSet(collector, target_binding[2], source_value)
    ELSE IF target_binding[1] = "list"
    THEN IF source_value[1] \notin {"list", "tuple"}
         THEN Raise("TypeError", "must return a list/tuple")
         ELSE LET n == IF Len(source_value[2]) < Len(target_binding[2])
                       THEN Len(source_value[2]) ELSE Len(target_binding[2])
                  acc[i \in 0..n] ==
                      IF i = 0 THEN collector
                      ELSE DictSet(acc[i - 1], target_binding[2][i][2], source_value[2][i])
              IN acc[n]
    ELSE IF target_binding[1] = "dict"
    THEN IF source_value[1] # "dict"
         THEN Raise("TypeError", "must return a mapping")
         ELSE IF \E i \in 1..Len(target_binding[2]) :
                    ~DictHas(source_value, target_binding[2][i][1])
         THEN Raise("KeyError", "missing nested output key")
         ELSE LET acc[i \in 0..Len(target_binding[2])] ==
                      IF i = 0 THEN collector
                      ELSE DictSet(acc[i - 1], target_binding[2][i][2][2],
                                   DictGet(source_value, target_binding[2][i][1]))
              IN acc[Len(target_binding[2])]
    ELSE Raise("TypeError", "unsupported output binding type")

\* _apply_output_binding(step_id, source_value, target_binding, collector):
\* the collector after the assignments, or the exception raised.
_apply_output_binding(source_value, target_binding, collector) ==
    IF target_binding[1] = "str" THEN DictSet(collector, target_binding[2], source_value)
    ELSE IF target_binding[1] = "list"
    THEN IF source_value[1] \notin {"list", "tuple"}
         THEN Raise("TypeError", "must return a list/tuple")
         ELSE IF Len(source_value[2]) # Len(target_binding[2])
         THEN Raise("ValueError", "values for output targets")
         ELSE LET acc[i \in 0..Len(target_binding[2])] ==
                      IF i = 0 THEN collector
                      ELSE DictSet(acc[i - 1], target_binding[2][i][2], source_value[2][i])
              IN acc[Len(target_binding[2])]
    ELSE IF target_binding[1] = "dict"
    THEN IF source_value[1] # "dict"
         THEN Raise("TypeError", "must return a mapping")
         ELSE IF \E i \in 1..Len(target_binding[2]) :
                    ~DictHas(source_value, target_binding[2][i][1])
         THEN Raise("KeyError", "missing nested output key")
         ELSE LET acc[i \in 0..Len(target_binding[2])] ==
                      IF i = 0 THEN collector
                      ELSE DictSet(acc[i - 1], target_binding[2][i][2][2],
                                   DictGet(source_value, target_binding[2][i][1]))
              IN acc[Len(target_binding[2])]
    ELSE Raise("TypeError", "unsupported output binding type")

\* _map_result_with_bindings(step_id, result, bindings): bindings are the
\* (output key, target) items of step.output_bindings().
_map_result_with_bindings(step_result, bindings) ==
    IF bindings = <<>> THEN step_result
    ELSE LET acc[i \in 0..Len(bindings)] ==
                 IF i = 0 THEN Dict(<<>>)
                 ELSE IF IsRaise(acc[i - 1]) THEN acc[i - 1]
                 ELSE IF ~DictHas(step_result, bindings[i][1])
                 THEN Raise("KeyError", "did not return expected output key")
                 ELSE _apply_output_binding(DictGet(step_result, bindings[i][1]),
                                            bindings[i][2], acc[i - 1])
         IN acc[Len(bindings)]

\* A step handed to execute_step: a ResolvedStep (as from_definition built it)
\* or a plain Step subclass with its inputs and outputs lists.
ResolvedStep(rec) == <<"ResolvedStep", rec>>
PlainStep(id, ins, outs) == <<"Step", [id |-> id, inputs |-> ins, outputs |-> outs]>>

\* RunnerBase._resolve_step_inputs(step, artifacts): the handler's keyword
\* arguments, or the exception raised.
_resolve_step_inputs(step, namespace) ==
    IF step[1] = "ResolvedStep"
    THEN LET ins == input_bindings(step[2])
             rs == [i \in 1..Len(ins) |-> _resolve_bound_input(ins[i][2], namespace)]
         IN IF AnyRaise(rs) THEN FirstRaise(rs)
            ELSE Dict([i \in 1..Len(ins) |-> <<ins[i][1], rs[i]>>])
    ELSE LET ins == step[2].inputs IN
         IF \E i \in 1..Len(ins) : ins[i] \notin DOMAIN namespace
         THEN Raise("KeyError", "missing input artifact")
         ELSE Dict([i \in 1..Len(ins) |-> <<ins[i], namespace[ins[i]]>>])

\* RunnerBase._materialize_step_outputs(step, result)
_materialize_step_outputs(step, step_result) ==
    IF step_result[1] # "dict" THEN Raise("TypeError", "must return a dict")
    ELSE IF step[1] = "ResolvedStep"
    THEN _map_result_with_bindings(step_result, output_bindings(step[2]))
    ELSE LET outs == step[2].outputs IN
         IF outs = <<>> THEN step_result
         ELSE IF \A i \in 1..Len(outs) : DictHas(step_result, outs[i])
         THEN Dict([i \in 1..Len(outs) |-> <<outs[i], DictGet(step_result, outs[i])>>])
         ELSE IF Len(outs) = 1 /\ Len(step_result[2]) = 1
         THEN Dict(<< <<outs[1], step_result[2][1][2]>> >>)
         ELSE Raise("KeyError", "result keys do not match outputs")

\* _set_step_metric_span_attributes: bool and number metrics only.
SpanMetrics(metrics) == Dict(SelectSeq(metrics[2], LAMBDA it : it[2][1] \in {"bool", "int"}))

NoReport ==
    [step_id |-> "None", rows_in |-> NoneValue, rows_out |-> NoneValue,
     outputs |-> <<>>, metrics |-> Dict(<<>>)]

\* The step span: whether it was started, and the attributes set on it (None: not set).
NoSpan == [started |-> FALSE, rows_in |-> NoneValue, rows_out |-> NoneValue,
           metrics |-> Dict(<<>>)]

StepFailed(e, namespace, span_started) ==
    [raised |-> e, artifacts |-> namespace, report |-> NoReport,
     span |-> [NoSpan EXCEPT !.started = span_started]]

\* RunnerBase.execute_step(step, artifacts, ctx); `handler` is what step.run
\* returns or raises.  The outcome: the exception raised (or None), the
\* namespace afterwards, the step report returned and the step span.
execute_step(step, namespace, handler) ==
    LET step_kwargs == _resolve_step_inputs(step, namespace) IN
    IF IsRaise(step_kwargs) THEN StepFailed(step_kwargs, namespace, FALSE)
    ELSE IF IsRaise(handler) THEN StepFailed(handler, namespace, TRUE)
    ELSE LET rows_in == _count_rows(step_kwargs)
             extracted == _extract_step_metrics(handler)
         IN
         IF IsRaise(extracted) THEN StepFailed(extracted, namespace, TRUE)
         ELSE LET step_result == extracted[2]
                  step_metrics == extracted[3]
                  materialized == _materialize_step_outputs(step, step_result)
              IN
              IF IsRaise(materialized) THEN StepFailed(materialized, namespace, TRUE)
              ELSE LET rows_out == _count_rows(materialized) IN
                   [raised |-> NoneValue,
                    artifacts |-> NamespaceUpdate(namespace, materialized),
                    report |-> [step_id |-> step[2].id, rows_in |-> rows_in,
                                rows_out |-> rows_out,
                                outputs |-> [i \in 1..Len(materialized[2]) |->
                                                materialized[2][i][1]],
                                metrics |-> step_metrics],
                    span |-> [started |-> TRUE, rows_in |-> rows_in,
                              rows_out |-> rows_out,
                              metrics |-> SpanMetrics(step_metrics)]]

\* The manifest entry _build_manifest_payload makes of a step report.
ManifestStepEntry(report) ==
    [step_id |-> report.step_id, rows_in |-> report.rows_in,
     rows_out |-> report.rows_out, outputs |-> report.outputs,
     metrics |-> report.metrics,
     rows_dropped |-> IF DictHas(report.metrics, "rows_dropped")
                      THEN DictGet(report.metrics, "rows_dropped") ELSE NoneValue,
     rows_unmatched |-> IF DictHas(report.metrics, "rows_unmatched")
                        THEN DictGet(report.metrics, "rows_unmatched") ELSE NoneValue]

\* The steps explored: every ResolvedStep from_definition accepts among the
\* definitions below, and the plain steps.
OutputTargetBindings ==
    {Str("a"), List(<<Str("a"), Str("b")>>), List(<<Str("b"), Str("b")>>),
     Dict(<< <<"x", Str("a")>>, <<"y", Str("b")>> >>)}

StepDefinitions ==
    {<<dins, douts, Dict(SelectSeq(<< <<"input", i>>, <<"output", o>>, <<"outputs", os>> >>,
                                   LAMBDA it : it[2] # NoneValue))>> :
        dins \in {<<>>, <<"input">>},
        douts \in {<<>>, <<"output">>, <<"output", "outputs">>},
        i \in {NoneValue, Str("a")},
        o \in OutputTargetBindings \cup {NoneValue},
        os \in {NoneValue, Str("b"), Str("a")}}

ResolvedSteps ==
    {ResolvedStep(r[2]) :
        r \in {x \in {from_definition("s1", d[1], d[2], d[3]) : d \in StepDefinitions} :
                 x[1] = "step"}}

PlainSteps ==
    {PlainStep("s1", ins, outs) :
        ins \in {<<>>, <<"a">>}, outs \in {<<>>, <<"a">>, <<"a", "b">>}}

\* What a handler returns under its first result key.
ResultValues ==
    {Frame(1), List(<<Frame(1), Frame(2)>>), List(<<Frame(1)>>),
     Dict(<< <<"x", Frame(1)>>, <<"y", Frame(2)>> >>), Dict(<< <<"x", Frame(1)>> >>),
     List(<<IntValue(1), IntValue(2), IntValue(3)>>), Str("text")}

MetricsValues == {Dict(<< <<"rows_dropped", IntValue(1)>>, <<"note", Str("n")>> >>), Str("bad")}

\* The result keys a handler of the step uses.
ResultKeys(step) == IF step[1] = "ResolvedStep" THEN <<"output", "outputs">> ELSE <<"a", "b">>

\* What step.run does: returns a dict, returns something else, or raises.
HandlerOutcomes(step) ==
    {Dict(SelectSeq(<< <<ResultKeys(step)[1], v1>>, <<ResultKeys(step)[2], v2>>,
                       <<metrics_key, m>> >>,
                    LAMBDA it : it[2] # NoneValue)) :
        v1 \in ResultValues \cup {NoneValue},
        v2 \in {NoneValue, Frame(2)},
        m \in MetricsValues \cup {NoneValue}}
      \cup {List(<<Frame(1)>>), Raise("ValueError", "boom")}

StepNamespaces == {<<>>, [n \in {"a"} |-> Frame(3)]}

InitStep ==
    /\ \E step \in ResolvedSteps \cup PlainSteps, ns \in StepNamespaces :
          \E h \in HandlerOutcomes(step) :
             args = [fn |-> "execute_step", step |-> step, artifacts |-> ns, handler |-> h]
    /\ ret = NoCall
    /\ pc = "call"
    /\ pipeline = Pipeline("batch", <<>>, <<>>, <<>>)
    /\ verr = NoValidationError
    /\ outcome = NotStarted
    /\ RunIdle
    /\ CtxIdle

ExecuteStepCall ==
    /\ pc = "call"
    /\ args.fn = "execute_step"
    /\ ret' = execute_step(args.step, args.artifacts, args.handler)
    /\ pc' = "returned"
    /\ UNCHANGED <<args, ctxvars, pipeline, verr, outcome, runvars>>

NextStep == ExecuteStepCall

SpecStep == InitStep /\ [][NextStep]_vars

----------------------------------------------------------------------------
(* Properties of execute_step, checked under SpecStep.                       *)

StepReturned == pc = "returned" /\ args.fn = "execute_step"

\* The handler returned a dict whose "__metrics__", if any, is a mapping, and
\* the step's inputs were all found: the data result is what is materialized.
DataResultReady ==
    /\ StepReturned
    /\ ~IsRaise(_resolve_step_inputs(args.step, args.artifacts))
    /\ args.handler[1] = "dict"
    /\ DictHas(args.handler, metrics_key) => DictGet(args.handler, metrics_key)[1] = "dict"

\* The handler's result without the reserved key.
DataResult == DictWithout(args.handler, metrics_key)

\* The output bindings of the step under call (a ResolvedStep).
StepOutputBindings == output_bindings(args.step[2])

\* Whether binding i cannot be materialized from the data result.
BindingFails(i) ==
    LET k == StepOutputBindings[i][1]
        target == StepOutputBindings[i][2]
    IN \/ ~DictHas(DataResult, k)
       \/ /\ DictHas(DataResult, k)
          /\ target[1] = "list"
          /\ \/ DictGet(DataResult, k)[1] \notin {"list", "tuple"}
             \/ Len(DictGet(DataResult, k)[2]) # Len(target[2])
       \/ /\ DictHas(DataResult, k)
          /\ target[1] = "dict"
          /\ \/ DictGet(DataResult, k)[1] # "dict"
             \/ \E j \in 1..Len(target[2]) : ~DictHas(DictGet(DataResult, k), target[2][j][1])

\* The assignments binding i stands for: (i, j, target name, value).
BindingAssignments(i) ==
    LET k == StepOutputBindings[i][1]
        target == StepOutputBindings[i][2]
        v == DictGet(DataResult, k)
    IN IF target[1] = "str" THEN {<<i, 1, target[2], v>>}
       ELSE IF target[1] = "list"
       THEN {<<i, j, target[2][j][2], v[2][j]>> : j \in 1..Len(target[2])}
       ELSE {<<i, j, target[2][j][2][2], DictGet(v, target[2][j][1])>> :
                j \in 1..Len(target[2])}

\* C15: for a step with output bindings whose handler returned its result,
\* a string target receives the value returned under its key; a list target
\* receives the returned elements position by position and fails when the
\* lengths differ or the value is no sequence; a mapping target receives the
\* value under each source key and fails when a source key is absent; a
\* declared output key missing from the result fails.  On any failure
\* execute_step raises and the namespace is what it was; otherwise the
\* namespace holds exactly the old names and the assigned ones, each target
\* with the value assigned to it (the last one, when a name is a target twice).
C15_OutputMaterialization ==
    (DataResultReady /\ args.step[1] = "ResolvedStep" /\ StepOutputBindings # <<>>) =>
        IF \E i \in 1..Len(StepOutputBindings) : BindingFails(i)
        THEN /\ IsRaise(ret.raised)
             /\ ret.artifacts = args.artifacts
             /\ ret.report = NoReport
        ELSE LET assigned == UNION {BindingAssignments(i) : i \in 1..Len(StepOutputBindings)}
                 last(n) == CHOOSE x \in assigned :
                               /\ x[3] = n
                               /\ \A y \in assigned :
                                     y[3] = n => (y[1] < x[1] \/ (y[1] = x[1] /\ y[2] <= x[2]))
             IN /\ ret.raised = NoneValue
                /\ DOMAIN ret.artifacts = DOMAIN args.artifacts \cup {x[3] : x \in assigned}
                /\ \A n \in DOMAIN ret.artifacts :
                      ret.artifacts[n] = IF n \in {x[3] : x \in assigned}
                                         THEN last(n)[4] ELSE args.artifacts[n]
                /\ Range(ret.report.outputs) = {x[3] : x \in assigned}

\* A two-target list binding output: [a, b] fed a list of two frames: a and
\* b each receive their frame.
C15_Witness ==
    /\ StepReturned
    /\ args.step[1] = "ResolvedStep"
    /\ Len(StepOutputBindings) = 1
    /\ StepOutputBindings[1] = <<"output", List(<<Str("a"), Str("b")>>)>>
    /\ args.handler[1] = "dict"
    /\ DictHas(args.handler, "output")
    /\ DictGet(args.handler, "output") = List(<<Frame(1), Frame(2)>>)
    /\ args.artifacts = <<>>
    /\ ret.raised = NoneValue
    /\ ret.artifacts = [n \in {"a", "b"} |-> IF n = "a" THEN Frame(1) ELSE Frame(2)]

\* C16: when a handler returns the reserved key "__metrics__", the key is
\* never a name of the namespace nor one of the report's outputs and its
\* content is the value of no new name; namespace, outputs and row counts are
\* those of the same result without the key; the content is the metrics of
\* the step report and of the manifest entry built from it.  A "__metrics__"
\* that is no mapping makes the step fail.
C16_MetricsKeptApart ==
    (StepReturned /\ args.handler[1] = "dict" /\ DictHas(args.handler, metrics_key)) =>
        LET content == DictGet(args.handler, metrics_key)
            plain == execute_step(args.step, args.artifacts, DataResult)
        IN /\ metrics_key \notin DOMAIN ret.artifacts
           /\ metrics_key \notin Range(ret.report.outputs)
           /\ \A n \in DOMAIN ret.artifacts \ DOMAIN args.artifacts :
                 ret.artifacts[n] # content
           /\ (content[1] # "dict"
                 /\ ~IsRaise(_resolve_step_inputs(args.step, args.artifacts)))
                 => (ret.raised = Raise("TypeError", "metrics must be a mapping")
                       /\ ret.artifacts = args.artifacts)
           /\ content[1] = "dict" =>
                 /\ ret.artifacts = plain.artifacts
                 /\ ret.raised = plain.raised
                 /\ ret.report.outputs = plain.report.outputs
                 /\ ret.report.rows_out = plain.report.rows_out
                 /\ ret.raised = NoneValue =>
                       /\ ret.report.metrics = content
                       /\ ManifestStepEntry(ret.report).metrics = content
                       /\ plain.report.metrics = Dict(<<>>)

\* A plain step without declared outputs returns {a: frame, __metrics__: {...}}:
\* only "a" enters the namespace, the metrics are in the report.
C16_Witness ==
    /\ StepReturned
    /\ args.step = PlainStep("s1", <<>>, <<>>)
    /\ args.artifacts = <<>>
    /\ args.handler[1] = "dict"
    /\ DictKeys(args.handler) = {"a", metrics_key}
    /\ ret.raised = NoneValue
    /\ DOMAIN ret.artifacts = {"a"}
    /\ ret.report.outputs = <<"a">>
    /\ ret.report.metrics = Dict(<< <<"rows_dropped", IntValue(1)>>, <<"note", Str("n")>> >>)
    /\ ManifestStepEntry(ret.report).rows_dropped = IntValue(1)

\* C17, as claimed: when the single output of a step is a plain list of n
\* scalar items, rows_out in the step report and the span attribute rows.out
\* are n.
C17_Claimed ==
    (StepReturned /\ ret.raised = NoneValue /\ Len(ret.report.outputs) = 1) =>
        LET value == ret.artifacts[ret.report.outputs[1]] IN
        (value[1] = "list" /\ \A i \in 1..Len(value[2]) : value[2][i][1] = "int") =>
            /\ ret.report.rows_out = IntValue(Len(value[2]))
            /\ ret.span.rows_out = IntValue(Len(value[2]))

----------------------------------------------------------------------------
(* Telemetry events of a run: Context.emit_event, _otel_event_hook and the   *)
(* active span kept by execute_step (trakt/runtime/runner_base.py).          *)

MaxEvents == 3

\* Event names, character by character.
EvPipelineStarted == <<"p", "i", "p", "e", "l", "i", "n", "e", ".", "s", "t", "a", "r", "t", "e", "d">>
EvPipelineCompleted == <<"p", "i", "p", "e", "l", "i", "n", "e", ".", "c", "o", "m", "p", "l", "e", "t", "e", "d">>
EvPipelineFailed == <<"p", "i", "p", "e", "l", "i", "n", "e", ".", "f", "a", "i", "l", "e", "d">>
EvStepStarted == <<"s", "t", "e", "p", ".", "s", "t", "a", "r", "t", "e", "d">>
EvStepCompleted == <<"s", "t", "e", "p", ".", "c", "o", "m", "p", "l", "e", "t", "e", "d">>

\* The names steps and adapters emit.
UserEvents ==
    { <<"w", "a", "r", "n", "i", "n", "g", ".", "x">>,
      <<"W", "a", "r", "n", "i", "n", "g">>,
      <<"c", "o", "e", "r", "c", "i", "o", "n">>,
      <<"m", "i", "s", "s", "i", "n", "g", "_", "c", "o", "l", "u", "m", "n">>,
      <<"m", "i", "s", "s", "i", "n", "g", "-", "c", "o", "l", "u", "m", "n">>,
      <<"w", "a", "r", "n">>,
      <<"i", "n", "f", "o">> }

\* s contains sub as a substring.
Contains(s, sub) ==
    \E i \in 1..(Len(s) - Len(sub) + 1) : SubSeq(s, i, i + Len(sub) - 1) = sub

\* str.replace("-", "_")
ReplaceHyphens(s) == [i \in 1..Len(s) |-> IF s[i] = "-" THEN "_" ELSE s[i]]

\* _is_otel_event(event_name)
_is_otel_event(event_name) ==
    LET normalized == ReplaceHyphens(Lower(event_name)) IN
    \/ Contains(normalized, <<"w", "a", "r", "n", "i", "n", "g">>)
    \/ Contains(normalized, <<"c", "o", "e", "r", "c", "i", "o", "n">>)
    \/ Contains(normalized, <<"m", "i", "s", "s", "i", "n", "g", "_", "c", "o", "l", "u", "m", "n">>)

PipelineSpan == "pipeline.run"

\* The span of the step at position i.
StepSpan(i) == StepId(i)

\* What is executing: the step whose execute_step is inside its try block, or
\* the pipeline.
Executing == IF pc = "step" THEN StepSpan(Len(invoked)) ELSE PipelineSpan

\* ctx.emit_event(name): every hook gets the event; _otel_event_hook adds it
\* to ctx.metadata["active_span"] or, when that is None, to the pipeline span.
emit_event(event_name, by_user) ==
    /\ delivered' = Append(delivered,
                           [name |-> event_name, during |-> Executing, user |-> by_user])
    /\ span_events' =
          IF _is_otel_event(event_name)
          THEN LET span == IF active_span # None THEN active_span ELSE PipelineSpan
               IN [span_events EXCEPT ![span] = Append(@, event_name)]
          ELSE span_events

\* The pipelines whose runs are followed: up to MaxSteps steps without inputs.
EventPipelines ==
    {Pipeline("batch", <<>>, [i \in 1..n |-> MkStep(i, [inputs |-> <<>>, outputs |-> <<>>,
                                                        supports_batch |-> TRUE,
                                                        supports_stream |-> FALSE], FALSE)],
              <<>>) : n \in 0..MaxSteps}

\* run() inside the pipeline span, after ctx.add_metadata("pipeline_span", ...)
\* and ctx.emit_event("pipeline.started").
InitEvents ==
    /\ pipeline \in EventPipelines
    /\ pc = "pipeline"
    /\ active_span = None
    /\ span_events = [sp \in {PipelineSpan} \cup {StepSpan(i) : i \in 1..MaxSteps} |->
                          IF sp = PipelineSpan /\ _is_otel_event(EvPipelineStarted)
                          THEN <<EvPipelineStarted>> ELSE <<>>]
    /\ delivered = <<[name |-> EvPipelineStarted, during |-> PipelineSpan, user |-> FALSE]>>
    /\ verr = NoValidationError
    /\ outcome = NotStarted
    /\ RunIdle
    /\ CallIdle

\* load_inputs, a step handler, write_outputs or get_manifest_path emits an
\* event through the context.
EmitUserEvent ==
    /\ pc \in {"pipeline", "step", "failed", "completed"}
    /\ Cardinality({i \in 1..Len(delivered) : delivered[i].user}) < MaxEvents
    /\ \E name \in UserEvents : emit_event(name, TRUE)
    /\ UNCHANGED <<callvars, active_span, pipeline, pc, verr, outcome, runvars>>

\* execute_step up to the handler call: the step span becomes the active span
\* and step.started is emitted.
StepEnter ==
    /\ pc = "pipeline"
    /\ Len(invoked) < Len(pipeline.steps)
    /\ invoked' = Append(invoked, pipeline.steps[Len(invoked) + 1].id)
    /\ active_span' = StepSpan(Len(invoked) + 1)
    /\ delivered' = Append(delivered, [name |-> EvStepStarted,
                                       during |-> StepSpan(Len(invoked) + 1),
                                       user |-> FALSE])
    /\ span_events' =
          IF _is_otel_event(EvStepStarted)
          THEN [span_events EXCEPT ![StepSpan(Len(invoked) + 1)] = Append(@, EvStepStarted)]
          ELSE span_events
    /\ pc' = "step"
    /\ UNCHANGED <<callvars, pipeline, verr, outcome, artifacts, step_reports, loads,
                   out_calls, outputs, error, exc, result, manifest_calls,
                   manifest_files, manifest_exc, failure>>

\* Variant: the active span is left in place when the step completes.
StepComplete_KeepsSpan ==
    /\ pc = "step"
    /\ emit_event(EvStepCompleted, FALSE)
    /\ step_reports' = Append(step_reports, pipeline.steps[Len(invoked)].id)
    /\ pc' = "pipeline"
    /\ UNCHANGED <<callvars, active_span, pipeline, verr, outcome, artifacts, invoked, loads,
                   out_calls, outputs, error, exc, result, manifest_calls,
                   manifest_files, manifest_exc, failure>>

\* The handler returned: step.completed is emitted, then the finally clause
\* sets active_span to None.
StepComplete ==
    /\ pc = "step"
    /\ emit_event(EvStepCompleted, FALSE)
    /\ active_span' = None
    /\ step_reports' = Append(step_reports, pipeline.steps[Len(invoked)].id)
    /\ pc' = "pipeline"
    /\ UNCHANGED <<callvars, pipeline, verr, outcome, artifacts, invoked, loads,
                   out_calls, outputs, error, exc, result, manifest_calls,
                   manifest_files, manifest_exc, failure>>

\* The handler (or materialization) raised: the finally clause sets
\* active_span to None, then run()'s except clause emits pipeline.failed.
StepFail ==
    /\ pc = "step"
    /\ active_span' = None
    /\ delivered' = Append(delivered, [name |-> EvPipelineFailed, during |-> PipelineSpan,
                                       user |-> FALSE])
    /\ span_events' =
          IF _is_otel_event(EvPipelineFailed)
          THEN [span_events EXCEPT ![PipelineSpan] = Append(@, EvPipelineFailed)]
          ELSE span_events
    /\ failure' = [where |-> "step", exc |-> Exc("Exception", "ValueError", "boom")]
    /\ pc' = "failed"
    /\ UNCHANGED <<callvars, pipeline, verr, outcome, artifacts, step_reports, invoked, loads,
                   out_calls, outputs, error, exc, result, manifest_calls,
                   manifest_files, manifest_exc>>

\* load_inputs, _resolve_step_inputs or write_outputs raised outside any step
\* span: run()'s except clause emits pipeline.failed.
PipelineFail ==
    /\ pc = "pipeline"
    /\ emit_event(EvPipelineFailed, FALSE)
    /\ failure' = [where |-> "pipeline", exc |-> Exc("Exception", "ValueError", "boom")]
    /\ pc' = "failed"
    /\ UNCHANGED <<callvars, active_span, pipeline, verr, outcome, artifacts, step_reports,
                   invoked, loads, out_calls, outputs, error, exc, result, manifest_calls,
                   manifest_files, manifest_exc>>

\* Every step is done and write_outputs returned: pipeline.completed is emitted.
PipelineComplete ==
    /\ pc = "pipeline"
    /\ Len(invoked) = Len(pipeline.steps)
    /\ emit_event(EvPipelineCompleted, FALSE)
    /\ pc' = "completed"
    /\ UNCHANGED <<callvars, active_span, pipeline, verr, outcome, runvars>>

NextEvents ==
    \/ EmitUserEvent
    \/ StepEnter
    \/ StepComplete
    \/ StepFail
    \/ PipelineFail
    \/ PipelineComplete

SpecEvents == InitEvents /\ [][NextEvents]_vars

\* The names of the delivered events that were emitted while `span` was
\* executing and that satisfy `Matches`, in order.
DeliveredDuring(span, Matches(_)) ==
    LET picked == SelectSeq(delivered, LAMBDA e : e.during = span /\ Matches(e.name))
    IN [i \in 1..Len(picked) |-> picked[i].name]

\* The name as written contains "warning", "coercion" or "missing_column".
NameContainsDiagnostic(name) ==
    \/ Contains(name, <<"w", "a", "r", "n", "i", "n", "g">>)
    \/ Contains(name, <<"c", "o", "e", "r", "c", "i", "o", "n">>)
    \/ Contains(name, <<"m", "i", "s", "s", "i", "n", "g", "_", "c", "o", "l", "u", "m", "n">>)

\* The name, lower-cased and with "-" replaced by "_", contains one of them.
NormalizedNameContainsDiagnostic(name) ==
    NameContainsDiagnostic([i \in 1..Len(name) |->
                               IF name[i] = "-" THEN "_" ELSE LowerChar(name[i])])

\* C18, as claimed: the events of a span are exactly the events emitted while
\* that span's step (or, for the pipeline span, no step) was executing whose
\* name, as written, contains "warning", "coercion" or "missing_column".
C18_Claimed ==
    pc \in {"pipeline", "step", "failed", "completed"} =>
        \A sp \in DOMAIN span_events :
            span_events[sp] = DeliveredDuring(sp, NameContainsDiagnostic)

\* C18, amended: an emitted event is added to a span exactly when its name,
\* lower-cased and with "-" replaced by "_", contains "warning", "coercion" or
\* "missing_column"; it is added once, to the span of the step executing when
\* it is emitted, or to the pipeline span when no step is executing (before
\* the first step, between steps, after a step completed or failed); every
\* event reaches the hook, and no active span is left once a step is over.
C18_DiagnosticEventsOnActiveSpan ==
    pc \in {"pipeline", "step", "failed", "completed"} =>
        /\ \A sp \in DOMAIN span_events :
              span_events[sp] = DeliveredDuring(sp, NormalizedNameContainsDiagnostic)
        /\ pc \in {"pipeline", "failed", "completed"} => active_span = None
        /\ pc = "step" => active_span = StepSpan(Len(invoked))

\* A warning emitted inside step s1 is on s1's span, "missing-column" emitted
\* after s1 completed is on the pipeline span, "info" was delivered only.
C18_Witness ==
    /\ pc = "pipeline"
    /\ step_reports = <<"s1">>
    /\ Len(delivered) = 6
    /\ delivered[3].name = <<"w", "a", "r", "n", "i", "n", "g", ".", "x">>
    /\ delivered[5].name = <<"m", "i", "s", "s", "i", "n", "g", "-", "c", "o", "l", "u", "m", "n">>
    /\ delivered[6].name = <<"i", "n", "f", "o">>
    /\ span_events["s1"] = << <<"w", "a", "r", "n", "i", "n", "g", ".", "x">> >>
    /\ span_events[PipelineSpan] = << <<"m", "i", "s", "s", "i", "n", "g", "-", "c", "o", "l", "u", "m", "n">> >>

----------------------------------------------------------------------------
(* Quality gates: evaluate_quality_gates (trakt/core/policies.py).           *)

MaxRows == 2

\* Column names in sorted() order.
ColumnOrder == <<"amount", "city", "country", "id">>

\* sorted(S) for a set of column names.
SortedColumns(S) ==
    LET kept == SelectSeq(ColumnOrder, LAMBDA c : c \in S) IN kept

\* A cell: a value or a null.
Cells == {"a", "null"}

\* A pandas DataFrame: its columns and its rows, each row a value per column.
DataFrame(columns, rows) == [kind |-> "frame", columns |-> columns, rows |-> rows]

\* A value without .columns or .drop_duplicates.
NotAFrame == [kind |-> "other", columns |-> {}, rows |-> <<>>]

\* Nothing was returned.
NoData == [kind |-> "none", columns |-> {}, rows |-> <<>>]

DataFrames ==
    {DataFrame(cols, rows) :
        cols \in {{"id"}, {"amount"}, {"id", "amount"}},
        rows \in SeqsUpTo([{"id", "amount"} -> Cells], MaxRows)}

\* The frames, each once: a row is restricted to the frame's columns.
QualityData ==
    {DataFrame(f.columns, [i \in 1..Len(f.rows) |-> [c \in f.columns |-> f.rows[i][c]]]) :
        f \in DataFrames} \cup {NotAFrame}

GateNames == {"required_columns", "unique_keys", "row_count", "max_null_ratio"}

QualityModes == {"warn", "fail"}

\* QualityGatePolicy after __post_init__; max_null_ratio as its items in
\* insertion order, each threshold in hundredths; gate_modes as a function
\* from the overridden gate names.
QualityGatePolicy(mode, required_columns, unique_keys, row_count_min, row_count_max, max_null_ratio, gate_modes) ==
    [mode |-> mode, required_columns |-> required_columns, unique_keys |-> unique_keys,
     row_count_min |-> row_count_min, row_count_max |-> row_count_max,
     max_null_ratio |-> max_null_ratio, gate_modes |-> gate_modes]

RowCountBounds ==
    { <<NoneValue, NoneValue>>, <<IntValue(2), NoneValue>>, <<NoneValue, IntValue(1)>>,
      <<IntValue(1), IntValue(1)>>, <<IntValue(2), IntValue(1)>> }

GateModeOverrides ==
    UNION {[D -> QualityModes] : D \in {{}} \cup {{g} : g \in GateNames}}

QualityPolicies ==
    {QualityGatePolicy(mode, req, uniq, rc[1], rc[2], mnr, gm) :
        mode \in QualityModes,
        req \in {<<>>, <<"id">>, <<"id", "country">>},
        uniq \in {<<>>, << <<"id">> >>, << <<"id">>, <<"country">> >>},
        rc \in RowCountBounds,
        mnr \in {<<>>, << <<"amount", 0>> >>, << <<"amount", 50>>, <<"country", 0>> >>},
        gm \in GateModeOverrides}

\* ctx: None, an object without emit_event, or a Context.
QualityContexts == {"None", "object", "Context"}

\* Variant: row_count min and max are not compared with each other.
_validate_quality_policy_UnorderedBounds(policy) ==
    IF policy.mode \notin {"warn", "fail"}
    THEN Raise("ValueError", "mode")
    ELSE IF \E g \in DOMAIN policy.gate_modes : policy.gate_modes[g] \notin {"warn", "fail"}
    THEN Raise("ValueError", "gate_modes")
    ELSE IF policy.row_count_min # NoneValue /\ policy.row_count_min[2] < 0
    THEN Raise("ValueError", "row_count min")
    ELSE IF policy.row_count_max # NoneValue /\ policy.row_count_max[2] < 0
    THEN Raise("ValueError", "row_count max")
    ELSE IF \E i \in 1..Len(policy.max_null_ratio) :
               policy.max_null_ratio[i][2] < 0 \/ policy.max_null_ratio[i][2] > 100
    THEN Raise("ValueError", "max_null_ratio")
    ELSE NoneValue

\* _validate_quality_policy(policy): the exception it raises, or NoneValue.
_validate_quality_policy(policy) ==
    IF policy.mode \notin {"warn", "fail"}
    THEN Raise("ValueError", "mode")
    ELSE IF \E g \in DOMAIN policy.gate_modes : policy.gate_modes[g] \notin {"warn", "fail"}
    THEN Raise("ValueError", "gate_modes")
    ELSE IF policy.row_count_min # NoneValue /\ policy.row_count_min[2] < 0
    THEN Raise("ValueError", "row_count min")
    ELSE IF policy.row_count_max # NoneValue /\ policy.row_count_max[2] < 0
    THEN Raise("ValueError", "row_count max")
    ELSE IF /\ policy.row_count_min # NoneValue
            /\ policy.row_count_max # NoneValue
            /\ policy.row_count_min[2] > policy.row_count_max[2]
    THEN Raise("ValueError", "row_count min cannot exceed max")
    ELSE IF \E i \in 1..Len(policy.max_null_ratio) :
               policy.max_null_ratio[i][2] < 0 \/ policy.max_null_ratio[i][2] > 100
    THEN Raise("ValueError", "max_null_ratio")
    ELSE NoneValue

\* _validate_dataframe_like(data)
_validate_dataframe_like(data) ==
    IF data.kind = "frame" THEN NoneValue ELSE Raise("TypeError", "DataFrame-like")

\* sorted(set(names) - set(data.columns))
MissingColumns(names, data) == SortedColumns(Range(names) \ data.columns)

\* int(len(data) - len(data.drop_duplicates(subset=keys)))
duplicate_count(data, keys) ==
    Len(data.rows) -
    Cardinality({[k \in Range(keys) |-> data.rows[i][k]] : i \in 1..Len(data.rows)})

\* float(data[column].isna().mean()) > threshold; the mean of no rows is NaN,
\* which exceeds nothing.
NullRatioExceeds(data, column, threshold) ==
    LET nulls == Cardinality({i \in 1..Len(data.rows) : data.rows[i][column] = "null"})
    IN Len(data.rows) > 0 /\ nulls * 100 > threshold * Len(data.rows)

\* The local state of one evaluation: the metrics dict, the calls of
\* _emit_policy_event so far and the exception that ended it, if any.
GateState(checks, violations, warnings, emitted, raised) ==
    [checks |-> checks, violations |-> violations, warnings |-> warnings,
     emitted |-> emitted, raised |-> raised]

\* Variant: in fail mode the diagnostic is emitted before the error is raised.
_handle_quality_violation_EmitThenRaise(st, gate_name, subject, policy) ==
    LET mode == IF gate_name \in DOMAIN policy.gate_modes
                THEN policy.gate_modes[gate_name] ELSE policy.mode
        event == [name |-> "warning.quality_gate", gate |-> gate_name, subject |-> subject]
    IN IF mode = "warn"
       THEN GateState(st.checks, st.violations + 1, st.warnings + 1,
                      Append(st.emitted, event), st.raised)
       ELSE GateState(st.checks, st.violations + 1, st.warnings,
                      Append(st.emitted, event), Raise("ValueError", gate_name))

\* Variant: a warning is emitted without being counted.
_handle_quality_violation_Uncounted(st, gate_name, subject, policy) ==
    LET mode == IF gate_name \in DOMAIN policy.gate_modes
                THEN policy.gate_modes[gate_name] ELSE policy.mode
        event == [name |-> "warning.quality_gate", gate |-> gate_name, subject |-> subject]
    IN IF mode = "warn"
       THEN GateState(st.checks, st.violations + 1, st.warnings,
                      Append(st.emitted, event), st.raised)
       ELSE GateState(st.checks, st.violations + 1, st.warnings, st.emitted,
                      Raise("ValueError", gate_name))

\* _handle_quality_violation(gate_name, message, policy, metrics, ctx, details)
_handle_quality_violation(st, gate_name, subject, policy) ==
    LET mode == IF gate_name \in DOMAIN policy.gate_modes
                THEN policy.gate_modes[gate_name] ELSE policy.mode
        event == [name |-> "warning.quality_gate", gate |-> gate_name, subject |-> subject]
    IN IF mode = "warn"
       THEN GateState(st.checks, st.violations + 1, st.warnings + 1,
                      Append(st.emitted, event), st.raised)
       ELSE GateState(st.checks, st.violations + 1, st.warnings, st.emitted,
                      Raise("ValueError", gate_name))

\* One test of a gate: whether it opens a new check (metrics["quality_checks"]
\* += 1), whether it finds a violation, and what the violation is about.
GateTest(gate, counts, violated, subject) ==
    [gate |-> gate, counts |-> counts, violated |-> violated, subject |-> subject]

\* if normalized.required_columns: ...
RequiredColumnsTests(data, policy) ==
    IF policy.required_columns = <<>> THEN <<>>
    ELSE LET missing == MissingColumns(policy.required_columns, data)
         IN << GateTest("required_columns", TRUE, missing # <<>>, missing) >>

\* for keys in normalized.unique_keys: ...
UniqueKeysTests(data, policy) ==
    [i \in 1..Len(policy.unique_keys) |->
        LET keys == policy.unique_keys[i]
            missing == MissingColumns(keys, data)
        IN IF missing # <<>>
           THEN GateTest("unique_keys", TRUE, TRUE, keys)
           ELSE GateTest("unique_keys", TRUE, duplicate_count(data, keys) > 0, keys)]

\* if row_count_min is not None or row_count_max is not None: ...
RowCountTests(data, policy) ==
    IF policy.row_count_min = NoneValue /\ policy.row_count_max = NoneValue THEN <<>>
    ELSE LET row_count == Len(data.rows)
         IN << GateTest("row_count", TRUE,
                        /\ policy.row_count_min # NoneValue
                        /\ row_count < policy.row_count_min[2],
                        <<"min">>),
               GateTest("row_count", FALSE,
                        /\ policy.row_count_max # NoneValue
                        /\ row_count > policy.row_count_max[2],
                        <<"max">>) >>

\* for column, threshold in normalized.max_null_ratio.items(): ...
MaxNullRatioTests(data, policy) ==
    [i \in 1..Len(policy.max_null_ratio) |->
        LET column == policy.max_null_ratio[i][1]
            threshold == policy.max_null_ratio[i][2]
        IN IF column \notin data.columns
           THEN GateTest("max_null_ratio", TRUE, TRUE, <<column>>)
           ELSE GateTest("max_null_ratio", TRUE, NullRatioExceeds(data, column, threshold),
                         <<column>>)]

\* The tests of one evaluation, in the order the code makes them.
GateTests(data, policy) ==
    RequiredColumnsTests(data, policy) \o UniqueKeysTests(data, policy)
        \o RowCountTests(data, policy) \o MaxNullRatioTests(data, policy)

\* _emit_policy_event(ctx, event_name, **attributes): what ctx receives.
_emit_policy_event(ctx, emitted) == IF ctx = "Context" THEN emitted ELSE <<>>

\* What a call leaves: whether it returned, the data it returned, the metrics
\* dict (as it was when an exception left the function, if one did), the
\* exception, the calls of _emit_policy_event and the events ctx received.
QualityOutcome(raised, data, st, ctx) ==
    [fn |-> "evaluate_quality_gates", raised |-> raised, data |-> data,
     metrics |-> [quality_checks |-> st.checks, quality_violations |-> st.violations,
                  quality_warnings |-> st.warnings],
     emitted |-> st.emitted, events |-> _emit_policy_event(ctx, st.emitted)]

\* evaluate_quality_gates(data, policy, ctx=ctx)
evaluate_quality_gates(data, policy, ctx) ==
    LET start == GateState(0, 0, 0, <<>>, NoneValue) IN
    IF _validate_quality_policy(policy) # NoneValue
    THEN QualityOutcome(_validate_quality_policy(policy), NoData, start, ctx)
    ELSE IF _validate_dataframe_like(data) # NoneValue
    THEN QualityOutcome(_validate_dataframe_like(data), NoData, start, ctx)
    ELSE
    LET tests == GateTests(data, policy)
        after[i \in 0..Len(tests)] ==
            IF i = 0 THEN start
            ELSE LET st == after[i - 1]
                     t == tests[i]
                     counted == IF t.counts
                                THEN GateState(st.checks + 1, st.violations, st.warnings,
                                               st.emitted, st.raised)
                                ELSE st
                 IN IF st.raised # NoneValue THEN st
                    ELSE IF t.violated
                    THEN _handle_quality_violation(counted, t.gate, t.subject, policy)
                    ELSE counted
        final == after[Len(tests)]
    IN QualityOutcome(final.raised, IF final.raised = NoneValue THEN data ELSE NoData,
                      final, ctx)

InitQuality ==
    /\ \E data \in QualityData, policy \in QualityPolicies, ctx \in QualityContexts :
          args = [fn |-> "evaluate_quality_gates", data |-> data, policy |-> policy,
                  ctx |-> ctx]
    /\ ret = NoCall
    /\ pc = "call"
    /\ pipeline = Pipeline("batch", <<>>, <<>>, <<>>)
    /\ verr = NoValidationError
    /\ outcome = NotStarted
    /\ RunIdle
    /\ CtxIdle

EvaluateQualityGates ==
    /\ pc = "call"
    /\ args.fn = "evaluate_quality_gates"
    /\ ret' = evaluate_quality_gates(args.data, args.policy, args.ctx)
    /\ pc' = "returned"
    /\ UNCHANGED <<args, ctxvars, pipeline, verr, outcome, runvars>>

NextQuality == EvaluateQualityGates

SpecQuality == InitQuality /\ [][NextQuality]_vars

----------------------------------------------------------------------------
(* Properties of evaluate_quality_gates, checked under SpecQuality.          *)

QualityReturned == pc = "returned" /\ args.fn = "evaluate_quality_gates"

\* The call gets a frame and a policy whose row-count bounds are consistent:
\* neither argument is rejected before the checks start.
QualityArgumentsAccepted ==
    /\ args.data.kind = "frame"
    /\ \/ args.policy.row_count_min = NoneValue
       \/ args.policy.row_count_max = NoneValue
       \/ args.policy.row_count_min[2] <= args.policy.row_count_max[2]

\* The mode that decides a violation of `gate`: its override, else the global mode.
EffectiveMode(policy, gate) ==
    IF gate \in DOMAIN policy.gate_modes THEN policy.gate_modes[gate] ELSE policy.mode

\* Mode warn and no gate overridden to fail.
WarnOnly(policy) ==
    /\ policy.mode = "warn"
    /\ \A g \in DOMAIN policy.gate_modes : policy.gate_modes[g] # "fail"

\* Two rows agree on every column of keys.
HasDuplicateRows(data, keys) ==
    \E i, j \in 1..Len(data.rows) :
        i < j /\ \A k \in Range(keys) : data.rows[i][k] = data.rows[j][k]

\* The number of configured checks that data violates.
NumViolatedChecks(data, policy) ==
    LET n == Len(data.rows)
        required == IF /\ policy.required_columns # <<>>
                       /\ ~(Range(policy.required_columns) \subseteq data.columns)
                    THEN 1 ELSE 0
        unique == Cardinality({i \in 1..Len(policy.unique_keys) :
                     \/ ~(Range(policy.unique_keys[i]) \subseteq data.columns)
                     \/ HasDuplicateRows(data, policy.unique_keys[i])})
        rowcount == IF \/ policy.row_count_min # NoneValue /\ n < policy.row_count_min[2]
                       \/ policy.row_count_max # NoneValue /\ n > policy.row_count_max[2]
                    THEN 1 ELSE 0
        nulls(c) == Cardinality({i \in 1..n : data.rows[i][c] = "null"})
        ratio == Cardinality({i \in 1..Len(policy.max_null_ratio) :
                     LET c == policy.max_null_ratio[i][1]
                         t == policy.max_null_ratio[i][2]
                     IN \/ c \notin data.columns
                        \/ n > 0 /\ nulls(c) * 100 > t * n})
    IN required + unique + rowcount + ratio

\* C19: with mode warn and no gate overridden to fail, a call whose arguments
\* are accepted never raises: it returns the input data as it got it, metrics
\* whose quality_violations is the number of violated checks and equals
\* quality_warnings, and it emits one warning.quality_gate event per
\* violation, which a Context passed as ctx receives.
C19_WarnModeNeverRaises ==
    (QualityReturned /\ QualityArgumentsAccepted /\ WarnOnly(args.policy)) =>
        /\ ret.raised = NoneValue
        /\ ret.data = args.data
        /\ ret.metrics.quality_violations = NumViolatedChecks(args.data, args.policy)
        /\ ret.metrics.quality_warnings = ret.metrics.quality_violations
        /\ Len(ret.emitted) = ret.metrics.quality_violations
        /\ \A i \in 1..Len(ret.emitted) : ret.emitted[i].name = "warning.quality_gate"
        /\ args.ctx = "Context" => ret.events = ret.emitted

\* Two rows with the same id, one of them with a null amount, checked for the
\* columns id and country, unique id and no null amount: three violations,
\* three warnings, three events.
C19_Witness ==
    /\ QualityReturned
    /\ args.ctx = "Context"
    /\ args.policy.mode = "warn"
    /\ DOMAIN args.policy.gate_modes = {}
    /\ args.policy.required_columns = <<"id", "country">>
    /\ args.policy.unique_keys = << <<"id">> >>
    /\ args.policy.max_null_ratio = << <<"amount", 0>> >>
    /\ Len(args.data.rows) = 2
    /\ ret.raised = NoneValue
    /\ ret.metrics.quality_violations = 3
    /\ ret.metrics.quality_warnings = 3
    /\ Len(ret.events) = 3

\* The violations data has under policy, in the order they are looked for.
QualityViolations(data, policy) ==
    SelectSeq(GateTests(data, policy), LAMBDA t : t.violated)

\* The diagnostic of a violation.
Diagnostic(v) == [name |-> "warning.quality_gate", gate |-> v.gate, subject |-> v.subject]

\* C20: a violation whose effective mode (the gate's override, else the global
\* mode) is fail makes the call raise without returning and without a
\* diagnostic for it; a violation whose effective mode is warn gets exactly
\* one diagnostic, is counted as a warning, and the evaluation goes on with
\* the remaining checks. So the diagnostics are those of the violations
\* before the first fail-mode violation, and nothing after it is evaluated.
C20_RaiseOrWarnNeverBoth ==
    (QualityReturned /\ QualityArgumentsAccepted) =>
        LET V == QualityViolations(args.data, args.policy)
            tests == GateTests(args.data, args.policy)
            fails == {i \in 1..Len(V) : EffectiveMode(args.policy, V[i].gate) = "fail"}
        IN IF fails = {}
           THEN /\ ret.raised = NoneValue
                /\ ret.data = args.data
                /\ ret.emitted = [i \in 1..Len(V) |-> Diagnostic(V[i])]
                /\ ret.metrics.quality_warnings = Len(V)
                /\ ret.metrics.quality_violations = Len(V)
                /\ ret.metrics.quality_checks =
                      Cardinality({i \in 1..Len(tests) : tests[i].counts})
           ELSE LET k == CHOOSE i \in fails : \A j \in fails : i <= j
                IN /\ ret.raised = Raise("ValueError", V[k].gate)
                   /\ ret.data = NoData
                   /\ ret.emitted = [i \in 1..(k - 1) |-> Diagnostic(V[i])]
                   /\ Diagnostic(V[k]) \notin Range(ret.emitted)
                   /\ ret.metrics.quality_warnings = k - 1
                   /\ ret.metrics.quality_violations = k

\* Global mode warn with unique_keys overridden to fail: the missing required
\* column is warned about, then the duplicate id raises.
C20_Witness ==
    /\ QualityReturned
    /\ args.ctx = "Context"
    /\ args.policy.mode = "warn"
    /\ DOMAIN args.policy.gate_modes = {"unique_keys"}
    /\ args.policy.gate_modes["unique_keys"] = "fail"
    /\ ret.raised = Raise("ValueError", "unique_keys")
    /\ Len(ret.events) = 1
    /\ ret.events[1].gate = "required_columns"
    /\ ret.metrics.quality_warnings = 1
    /\ ret.metrics.quality_violations = 2
    /\ "id" \in args.data.columns
    /\ HasDuplicateRows(args.data, <<"id">>)

----------------------------------------------------------------------------
(* Join policy: apply_join_policy (trakt/core/policies.py).                  *)

\* JoinPolicy(keys, how, collision, unmatched)
JoinPolicy(keys, how, collision, unmatched) ==
    [keys |-> keys, how |-> how, collision |-> collision, unmatched |-> unmatched]

JoinHows == {"left", "right", "inner", "outer"}

UnmatchedModes == {"allow", "warn", "drop", "fail"}

JoinPolicies ==
    {JoinPolicy(keys, how, collision, unmatched) :
        keys \in {<<"id">>, <<>>},
        how \in JoinHows \cup {"cross"},
        collision \in {"suffix", "none"},
        unmatched \in UnmatchedModes}

\* The left frames: ids 1 and 2 with an amount, or a frame without the key.
LeftFrames ==
    {DataFrame({"id", "amount"}, rows) :
        rows \in SeqsUpTo([id : {"1", "2"}, amount : {"a", "b"}], MaxRows)}
    \cup {DataFrame({"amount"}, <<[amount |-> "a"]>>)}

\* The right frames: ids 1 and 3 with a country, or a value without .merge.
RightFrames ==
    {DataFrame({"id", "country"}, rows) :
        rows \in SeqsUpTo([id : {"1", "3"}, country : {"US"}], MaxRows)}
    \cup {NotAFrame}

\* The order pandas sorts the key values of an outer join in.
KeyValueOrder == <<"1", "2", "3", "a", "b", "US", "null">>

KeyValueIndex(v) == CHOOSE i \in 1..Len(KeyValueOrder) : KeyValueOrder[i] = v

\* The concatenation of a sequence of sequences.
Flatten(seqs) ==
    LET acc[i \in 0..Len(seqs)] == IF i = 0 THEN <<>> ELSE acc[i - 1] \o seqs[i]
    IN acc[Len(seqs)]

\* The key of a row: its values in the `on` columns.
KeyOf(row, on) == [k \in 1..Len(on) |-> row[on[k]]]

\* keyA sorts before keyB (lexicographic).
KeyBefore(keyA, keyB) ==
    \E k \in 1..Len(keyA) :
        /\ \A j \in 1..(k - 1) : keyA[j] = keyB[j]
        /\ KeyValueIndex(keyA[k]) < KeyValueIndex(keyB[k])

\* One row of the merge result: the key, the columns of each side (null where
\* the side has no row) and the indicator.
MergedRow(left, right, on, key, lrow, rrow, indicator) ==
    [c \in left.columns \cup right.columns \cup {"_merge"} |->
        IF c = "_merge" THEN indicator
        ELSE IF c \in Range(on) THEN key[CHOOSE k \in 1..Len(on) : on[k] = c]
        ELSE IF c \in left.columns
             THEN (IF indicator = "right_only" THEN "null" ELSE lrow[c])
             ELSE (IF indicator = "left_only" THEN "null" ELSE rrow[c])]

\* The rows of `frame` whose key is `key`, in frame order.
RowsWithKey(frame, on, key) == SelectSeq(frame.rows, LAMBDA r : KeyOf(r, on) = key)

\* left.merge(right, on=on, how=how, indicator=True).rows
MergeRows(left, right, on, how) ==
    LET both(lrow, rrow) == MergedRow(left, right, on, KeyOf(lrow, on), lrow, rrow, "both")
        lonly(lrow) == MergedRow(left, right, on, KeyOf(lrow, on), lrow, lrow, "left_only")
        ronly(rrow) == MergedRow(left, right, on, KeyOf(rrow, on), rrow, rrow, "right_only")
        ofLeft(lrow, keep) ==
            LET ms == RowsWithKey(right, on, KeyOf(lrow, on))
            IN IF ms = <<>> THEN (IF keep THEN <<lonly(lrow)>> ELSE <<>>)
               ELSE [j \in 1..Len(ms) |-> both(lrow, ms[j])]
        ofRight(rrow) ==
            LET ms == RowsWithKey(left, on, KeyOf(rrow, on))
            IN IF ms = <<>> THEN <<ronly(rrow)>>
               ELSE [j \in 1..Len(ms) |-> both(ms[j], rrow)]
        leftJoin == Flatten([i \in 1..Len(left.rows) |-> ofLeft(left.rows[i], TRUE)])
        innerJoin == Flatten([i \in 1..Len(left.rows) |-> ofLeft(left.rows[i], FALSE)])
        rightJoin == Flatten([i \in 1..Len(right.rows) |-> ofRight(right.rows[i])])
        rightOnly == Flatten([i \in 1..Len(right.rows) |->
                        IF RowsWithKey(left, on, KeyOf(right.rows[i], on)) = <<>>
                        THEN <<ronly(right.rows[i])>> ELSE <<>>])
        unsorted == leftJoin \o rightOnly
        \* a stable sort by key
        position(i) ==
            Cardinality({j \in 1..Len(unsorted) :
                \/ KeyBefore(KeyOf(unsorted[j], on), KeyOf(unsorted[i], on))
                \/ KeyOf(unsorted[j], on) = KeyOf(unsorted[i], on) /\ j <= i})
        outerJoin == [p \in 1..Len(unsorted) |->
                        unsorted[CHOOSE i \in 1..Len(unsorted) : position(i) = p]]
    IN CASE how = "left" -> leftJoin
         [] how = "right" -> rightJoin
         [] how = "inner" -> innerJoin
         [] OTHER -> outerJoin

\* merged.drop(columns=["_merge"])
DropIndicator(columns, rows) ==
    DataFrame(columns \ {"_merge"},
              [i \in 1..Len(rows) |-> [c \in columns \ {"_merge"} |-> rows[i][c]]])

\* _validate_join_inputs(left, right)
_validate_join_inputs(left, right) ==
    IF left.kind = "frame" /\ right.kind = "frame" THEN NoneValue
    ELSE Raise("TypeError", "DataFrame-like")

\* _validate_join_policy(policy)
_validate_join_policy(policy) ==
    IF policy.keys = <<>> THEN Raise("ValueError", "keys")
    ELSE IF policy.how \notin {"left", "right", "inner", "outer"}
    THEN Raise("ValueError", "how")
    ELSE IF policy.collision \notin {"suffix", "none"} THEN Raise("ValueError", "collision")
    ELSE IF policy.unmatched \notin {"allow", "warn", "drop", "fail"}
    THEN Raise("ValueError", "unmatched")
    ELSE NoneValue

\* What a call of apply_join_policy leaves: the exception or the returned
\* frame, the calls of _emit_policy_event and the events ctx received.
JoinOutcome(raised, data, emitted, ctx) ==
    [fn |-> "apply_join_policy", raised |-> raised, data |-> data, emitted |-> emitted,
     events |-> _emit_policy_event(ctx, emitted)]

\* raise ValueError(f"Join policy failed due to {unmatched_count} unmatched rows.")
JoinUnmatchedError(unmatched_count) == <<"raise", "ValueError", "unmatched rows", unmatched_count>>

\* apply_join_policy(left, right, policy, ctx=ctx)
apply_join_policy(left, right, policy, ctx) ==
    IF _validate_join_inputs(left, right) # NoneValue
    THEN JoinOutcome(_validate_join_inputs(left, right), NoData, <<>>, ctx)
    ELSE IF _validate_join_policy(policy) # NoneValue
    THEN JoinOutcome(_validate_join_policy(policy), NoData, <<>>, ctx)
    ELSE IF Range(policy.keys) \ left.columns # {} \/ Range(policy.keys) \ right.columns # {}
    THEN JoinOutcome(Raise("ValueError", "Join keys missing"), NoData, <<>>, ctx)
    ELSE
    LET merged == MergeRows(left, right, policy.keys, policy.how)
        columns == left.columns \cup right.columns \cup {"_merge"}
        unmatched_count == Cardinality({i \in 1..Len(merged) : merged[i]["_merge"] = "left_only"})
        event == [name |-> "warning.join_unmatched", unmatched_count |-> unmatched_count,
                  keys |-> policy.keys]
    IN IF policy.unmatched = "allow"
       THEN JoinOutcome(NoneValue, DropIndicator(columns, merged), <<>>, ctx)
       ELSE IF unmatched_count = 0
       THEN JoinOutcome(NoneValue, DropIndicator(columns, merged), <<>>, ctx)
       ELSE IF policy.unmatched = "warn"
       THEN JoinOutcome(NoneValue, DropIndicator(columns, merged), <<event>>, ctx)
       ELSE IF policy.unmatched = "drop"
       THEN JoinOutcome(NoneValue,
                        DropIndicator(columns,
                                      SelectSeq(merged, LAMBDA r : r["_merge"] = "both")),
                        <<>>, ctx)
       ELSE JoinOutcome(JoinUnmatchedError(unmatched_count), NoData, <<>>, ctx)

InitJoin ==
    /\ \E left \in LeftFrames, right \in RightFrames, policy \in JoinPolicies,
          ctx \in QualityContexts :
          args = [fn |-> "apply_join_policy", left |-> left, right |-> right,
                  policy |-> policy, ctx |-> ctx]
    /\ ret = NoCall
    /\ pc = "call"
    /\ pipeline = Pipeline("batch", <<>>, <<>>, <<>>)
    /\ verr = NoValidationError
    /\ outcome = NotStarted
    /\ RunIdle
    /\ CtxIdle

ApplyJoinPolicy ==
    /\ pc = "call"
    /\ args.fn = "apply_join_policy"
    /\ ret' = apply_join_policy(args.left, args.right, args.policy, args.ctx)
    /\ pc' = "returned"
    /\ UNCHANGED <<args, ctxvars, pipeline, verr, outcome, runvars>>

NextJoin == ApplyJoinPolicy

SpecJoin == InitJoin /\ [][NextJoin]_vars

\* The call returned or raised after its arguments were accepted: two frames
\* with the key columns and a supported policy.
JoinEvaluated ==
    /\ pc = "returned"
    /\ args.fn = "apply_join_policy"
    /\ args.left.kind = "frame"
    /\ args.right.kind = "frame"
    /\ args.policy.keys # <<>>
    /\ args.policy.how \in JoinHows
    /\ Range(args.policy.keys) \subseteq args.left.columns
    /\ Range(args.policy.keys) \subseteq args.right.columns

\* The left rows that have no right row with the same key.
UnmatchedLeftRows(left, right, on) ==
    {i \in 1..Len(left.rows) :
        \A j \in 1..Len(right.rows) : KeyOf(left.rows[i], on) # KeyOf(right.rows[j], on)}

\* What the same call returns with unmatched = allow.
AllowJoin ==
    apply_join_policy(args.left, args.right,
                      JoinPolicy(args.policy.keys, args.policy.how, args.policy.collision,
                                 "allow"),
                      args.ctx).data

\* C21, as claimed: for every join type, with k the number of left rows that
\* have no matching right row: if k = 0 the result is that of unmatched=allow
\* and nothing is emitted or raised; if k > 0, warn emits exactly one
\* warning.join_unmatched event carrying k and returns the rows of allow, and
\* fail raises an error carrying k.
C21_Claimed ==
    (JoinEvaluated /\ args.policy.unmatched \in {"warn", "drop", "fail"}) =>
        LET k == Cardinality(UnmatchedLeftRows(args.left, args.right, args.policy.keys))
        IN /\ k = 0 => /\ ret.raised = NoneValue
                       /\ ret.data = AllowJoin
                       /\ ret.emitted = <<>>
           /\ (k > 0 /\ args.policy.unmatched = "warn") =>
                 /\ ret.raised = NoneValue
                 /\ ret.data = AllowJoin
                 /\ ret.emitted = <<[name |-> "warning.join_unmatched",
                                     unmatched_count |-> k, keys |-> args.policy.keys]>>
           /\ (k > 0 /\ args.policy.unmatched = "fail") =>
                 ret.raised = JoinUnmatchedError(k)

\* A row of the plain join comes from an unmatched left row: its key is the
\* key of a left row and of no right row.
FromUnmatchedLeftRow(row) ==
    /\ \E i \in 1..Len(args.left.rows) :
          KeyOf(args.left.rows[i], args.policy.keys) = KeyOf(row, args.policy.keys)
    /\ \A j \in 1..Len(args.right.rows) :
          KeyOf(args.right.rows[j], args.policy.keys) # KeyOf(row, args.policy.keys)

\* C22, as claimed: with unmatched=drop the result is the plain join without
\* the rows that come from unmatched left rows; matched rows and right-only
\* rows are kept, whether or not a left row was unmatched.
C22_Claimed ==
    (JoinEvaluated /\ args.policy.unmatched = "drop") =>
        /\ ret.raised = NoneValue
        /\ ret.data.columns = AllowJoin.columns
        /\ ret.data.rows = SelectSeq(AllowJoin.rows, LAMBDA r : ~FromUnmatchedLeftRow(r))

----------------------------------------------------------------------------
(* Dedupe policy: apply_dedupe_policy (trakt/core/policies.py).              *)

MaxDedupeRows == 3

\* DedupePolicy(keys, winner, order_by)
DedupePolicy(keys, winner, order_by) ==
    [keys |-> keys, winner |-> winner, order_by |-> order_by]

Winners == {"latest", "earliest", "max", "min", "first", "last", "non_null"}

DedupePolicies ==
    {DedupePolicy(keys, winner, order_by) :
        keys \in {<<"id">>, <<"zz">>, <<>>},
        winner \in Winners \cup {"newest"},
        order_by \in {None, "ts", "zz"}}

DedupeFrames ==
    {DataFrame({"id", "ts"}, rows) :
        rows \in SeqsUpTo([id : {"1", "2"}, ts : {"1", "2", "null"}], MaxDedupeRows)}

\* Permutations of 1..n.
RowOrders(n) == {p \in [1..n -> 1..n] : \A i, j \in 1..n : p[i] = p[j] => i = j}

\* value a may stand before value b in sort_values(ascending=...): nulls last.
MayPrecede(a, b, ascending) ==
    IF b = "null" THEN TRUE
    ELSE IF a = "null" THEN FALSE
    ELSE IF ascending THEN KeyValueIndex(a) <= KeyValueIndex(b)
    ELSE KeyValueIndex(a) >= KeyValueIndex(b)

\* frame.notna().sum(axis=1) for one row
non_null_count(row) == Cardinality({c \in DOMAIN row : row[c] # "null"})

\* The orders data.sort_values(order_by, ascending=ascending) can put the rows
\* in: the default sort is not stable, rows with equal values come in any order.
SortValuesOrders(rows, order_by, ascending) ==
    {p \in RowOrders(Len(rows)) :
        \A i \in 1..(Len(rows) - 1) :
            MayPrecede(rows[p[i]][order_by], rows[p[i + 1]][order_by], ascending)}

\* The orders frame.sort_values("__non_null_count", ascending=False) can give.
NonNullOrders(rows) ==
    {p \in RowOrders(Len(rows)) :
        \A i \in 1..(Len(rows) - 1) :
            non_null_count(rows[p[i]]) >= non_null_count(rows[p[i + 1]])}

\* frame.drop_duplicates(subset=keys, keep=keep)
drop_duplicates(rows, keys, keep) ==
    LET kept == {i \in 1..Len(rows) :
                    IF keep = "first"
                    THEN \A j \in 1..(i - 1) : KeyOf(rows[j], keys) # KeyOf(rows[i], keys)
                    ELSE \A j \in (i + 1)..Len(rows) : KeyOf(rows[j], keys) # KeyOf(rows[i], keys)}
        index == [i \in 1..Len(rows) |-> i]
        picked == SelectSeq(index, LAMBDA i : i \in kept)
    IN [i \in 1..Len(picked) |-> rows[picked[i]]]

\* _validate_dedupe_policy(policy)
_validate_dedupe_policy(policy) ==
    IF policy.keys = <<>> THEN Raise("ValueError", "keys")
    ELSE IF policy.winner \notin {"latest", "earliest", "max", "min", "first", "last", "non_null"}
    THEN Raise("ValueError", "winner")
    ELSE NoneValue

\* _sort_frame(data, order_by, ascending): the exception it raises, if any.
_sort_frame(data, order_by) ==
    IF order_by = None THEN Raise("ValueError", "requires order_by")
    ELSE IF order_by \notin data.columns THEN Raise("ValueError", "order_by column is missing")
    ELSE NoneValue

\* Variant: the frame worked on is the caller's frame itself.
data_copy_Alias(data) == [frame |-> data, is_input |-> TRUE]

\* frame = data.copy()
data_copy(data) == [frame |-> data, is_input |-> FALSE]

\* What a call of apply_dedupe_policy leaves: the exception or the returned
\* frame, and the caller's frame as it is afterwards.
DedupeOutcome(raised, rows, data, data_after) ==
    [fn |-> "apply_dedupe_policy", raised |-> raised,
     data |-> IF raised = NoneValue THEN DataFrame(data.columns, rows) ELSE NoData,
     data_after |-> data_after]

\* The orders the sort of one call can produce (the identity where the winner
\* rule sorts nothing or the call raises before sorting).
DedupeOrders(data, policy) ==
    LET identity == {[i \in 1..Len(data.rows) |-> i]}
    IN IF _validate_dedupe_policy(policy) # NoneValue THEN identity
       ELSE IF Range(policy.keys) \ data.columns # {} THEN identity
       ELSE IF policy.winner \in {"latest", "max", "earliest", "min"}
       THEN (IF _sort_frame(data, policy.order_by) # NoneValue THEN identity
             ELSE SortValuesOrders(data.rows, policy.order_by,
                                   policy.winner \in {"earliest", "min"}))
       ELSE IF policy.winner = "non_null" THEN NonNullOrders(data.rows)
       ELSE identity

\* apply_dedupe_policy(data, policy), the sort giving the rows in `order`.
apply_dedupe_policy(data, policy, order) ==
    IF _validate_dedupe_policy(policy) # NoneValue
    THEN DedupeOutcome(_validate_dedupe_policy(policy), <<>>, data, data)
    ELSE IF Range(policy.keys) \ data.columns # {}
    THEN DedupeOutcome(Raise("ValueError", "Dedupe keys missing"), <<>>, data, data)
    ELSE
    LET copied == data_copy(data)
        frame == copied.frame
        sorted == [i \in 1..Len(frame.rows) |-> frame.rows[order[i]]]
        \* frame["__non_null_count"] = ... changes the object `frame` names
        counted == DataFrame(frame.columns \cup {"__non_null_count"},
                             [i \in 1..Len(frame.rows) |->
                                 [c \in frame.columns \cup {"__non_null_count"} |->
                                     IF c = "__non_null_count" THEN "n" ELSE frame.rows[i][c]]])
    IN IF policy.winner \in {"latest", "max", "earliest", "min"}
       THEN (IF _sort_frame(frame, policy.order_by) # NoneValue
             THEN DedupeOutcome(_sort_frame(frame, policy.order_by), <<>>, data, data)
             ELSE DedupeOutcome(NoneValue, drop_duplicates(sorted, policy.keys, "first"),
                                data, data))
       ELSE IF policy.winner = "first"
       THEN DedupeOutcome(NoneValue, drop_duplicates(frame.rows, policy.keys, "first"),
                          data, data)
       ELSE IF policy.winner = "last"
       THEN DedupeOutcome(NoneValue, drop_duplicates(frame.rows, policy.keys, "last"),
                          data, data)
       ELSE DedupeOutcome(NoneValue, drop_duplicates(sorted, policy.keys, "first"), data,
                          IF copied.is_input THEN counted ELSE data)

InitDedupe ==
    /\ \E data \in DedupeFrames, policy \in DedupePolicies :
          args = [fn |-> "apply_dedupe_policy", data |-> data, policy |-> policy]
    /\ ret = NoCall
    /\ pc = "call"
    /\ pipeline = Pipeline("batch", <<>>, <<>>, <<>>)
    /\ verr = NoValidationError
    /\ outcome = NotStarted
    /\ RunIdle
    /\ CtxIdle

ApplyDedupePolicy ==
    /\ pc = "call"
    /\ args.fn = "apply_dedupe_policy"
    /\ \E order \in DedupeOrders(args.data, args.policy) :
          ret' = apply_dedupe_policy(args.data, args.policy, order)
    /\ pc' = "returned"
    /\ UNCHANGED <<args, ctxvars, pipeline, verr, outcome, runvars>>

NextDedupe == ApplyDedupePolicy

SpecDedupe == InitDedupe /\ [][NextDedupe]_vars

\* The call was made with a supported winner rule on a table that has the key
\* columns and, where the rule sorts, the order_by column.
DedupeApplicable ==
    /\ pc = "returned"
    /\ args.fn = "apply_dedupe_policy"
    /\ args.policy.keys # <<>>
    /\ Range(args.policy.keys) \subseteq args.data.columns
    /\ args.policy.winner \in Winners
    /\ args.policy.winner \in {"latest", "max", "earliest", "min"} =>
          args.policy.order_by \in args.data.columns

\* C23: for every winner rule and every table with the key columns (and the
\* order_by column where the rule needs it), the result has exactly one row
\* per distinct key combination of the input, every result row is an input
\* row, the result has the input's columns, and the input table is unchanged.
C23_OneSurvivorPerKey ==
    DedupeApplicable =>
        LET keys == args.policy.keys
            input == args.data.rows
            survivors == ret.data.rows
        IN /\ ret.raised = NoneValue
           /\ \A i \in 1..Len(input) :
                 Cardinality({j \in 1..Len(survivors) :
                                 KeyOf(survivors[j], keys) = KeyOf(input[i], keys)}) = 1
           /\ \A j \in 1..Len(survivors) : survivors[j] \in Range(input)
           /\ ret.data.columns = args.data.columns
           /\ ret.data_after = args.data

\* Three rows, two of them with id 1, deduplicated by non_null: two survivors.
C23_Witness ==
    /\ DedupeApplicable
    /\ args.policy.winner = "non_null"
    /\ Len(args.data.rows) = 3
    /\ args.data.rows[1].id = "1"
    /\ args.data.rows[2].id = "2"
    /\ args.data.rows[3].id = "1"
    /\ args.data.rows[1].ts = "null"
    /\ args.data.rows[3].ts = "2"
    /\ Len(ret.data.rows) = 2
    /\ args.data.rows[3] \in Range(ret.data.rows)

----------------------------------------------------------------------------
(* Combining the parts of a multi-file artifact: combine_artifact_frames     *)
(* (trakt/core/artifacts.py).                                                *)

MaxParts == 2

\* A part: its columns in order, the dtype of each column (frame.dtypes in
\* column order) and its rows.
Part(columns, dtypes, rows) == [columns |-> columns, dtypes |-> dtypes, rows |-> rows]

PartColumns == {<<"a", "b">>, <<"b", "a">>, <<"a">>, <<"a", "c">>}

Dtypes == {"int64", "object"}

\* Parts of no row or of one row holding the same value in every column.
Parts ==
    {Part(cols, dts, rows) :
        cols \in PartColumns, dts \in [1..2 -> Dtypes],
        rows \in {<<>>, <<"x">>, <<"y">>}}

\* The parts, each once: dtypes and rows restricted to the part's columns.
PartFrames ==
    {Part(q.columns, [i \in 1..Len(q.columns) |-> q.dtypes[i]],
          [i \in 1..Len(q.rows) |-> [c \in Range(q.columns) |-> q.rows[i]]]) : q \in Parts}

\* The strategy argument: a CombineStrategy value or another string.
StrategyArguments == CombineStrategy \cup {"merge"}

\* Variant: the columns are compared as sets.
_ensure_same_columns_AsSets(frames) ==
    IF \E i \in 2..Len(frames) : Range(frames[i].columns) # Range(frames[1].columns)
    THEN Raise("ValueError", "Column mismatch")
    ELSE NoneValue

\* _ensure_same_columns(frames)
_ensure_same_columns(frames) ==
    IF \E i \in 2..Len(frames) : frames[i].columns # frames[1].columns
    THEN Raise("ValueError", "Column mismatch")
    ELSE NoneValue

\* _ensure_same_dtypes(frames)
_ensure_same_dtypes(frames) ==
    IF \E i \in 2..Len(frames) : frames[i].dtypes # frames[1].dtypes
    THEN Raise("ValueError", "Schema mismatch")
    ELSE NoneValue

\* The columns of pd.concat(frames): those of the first frame, then the new
\* ones of each later frame, in order of first appearance.
ConcatColumns(frames) ==
    LET acc[i \in 0..Len(frames)] ==
            IF i = 0 THEN <<>>
            ELSE acc[i - 1] \o
                 SelectSeq(frames[i].columns, LAMBDA c : c \notin Range(acc[i - 1]))
    IN acc[Len(frames)]

\* pd.concat(frames, ignore_index=True): the rows of every frame in frame
\* order, over all the columns, a missing value where a frame lacks the column.
pd_concat(frames) ==
    LET columns == ConcatColumns(frames)
        widened(row) == [c \in Range(columns) |-> IF c \in DOMAIN row THEN row[c] ELSE "null"]
    IN [columns |-> columns,
        rows |-> Flatten([i \in 1..Len(frames) |->
                            [j \in 1..Len(frames[i].rows) |-> widened(frames[i].rows[j])]])]

NoCombined == [columns |-> <<>>, rows |-> <<>>]

\* What a call of combine_artifact_frames leaves.
CombineOutcome(raised, combined) ==
    [fn |-> "combine_artifact_frames", raised |-> raised,
     data |-> IF raised = NoneValue THEN combined ELSE NoCombined]

\* combine_artifact_frames(frames, strategy)
combine_artifact_frames(frames, strategy) ==
    IF frames = <<>> THEN CombineOutcome(Raise("ValueError", "at least one frame"), NoCombined)
    ELSE IF strategy \notin CombineStrategy
    THEN CombineOutcome(Raise("ValueError", "not a valid CombineStrategy"), NoCombined)
    ELSE IF strategy = CONCAT
    THEN CombineOutcome(_ensure_same_columns(frames), pd_concat(frames))
    ELSE IF strategy = VALIDATE_SCHEMA
    THEN (IF _ensure_same_columns(frames) # NoneValue
          THEN CombineOutcome(_ensure_same_columns(frames), NoCombined)
          ELSE CombineOutcome(_ensure_same_dtypes(frames), pd_concat(frames)))
    ELSE CombineOutcome(NoneValue, pd_concat(frames))

InitCombine ==
    /\ \E frames \in SeqsUpTo(PartFrames, MaxParts), strategy \in StrategyArguments :
          args = [fn |-> "combine_artifact_frames", frames |-> frames, strategy |-> strategy]
    /\ ret = NoCall
    /\ pc = "call"
    /\ pipeline = Pipeline("batch", <<>>, <<>>, <<>>)
    /\ verr = NoValidationError
    /\ outcome = NotStarted
    /\ RunIdle
    /\ CtxIdle

CombineArtifactFrames ==
    /\ pc = "call"
    /\ args.fn = "combine_artifact_frames"
    /\ ret' = combine_artifact_frames(args.frames, args.strategy)
    /\ pc' = "returned"
    /\ UNCHANGED <<args, ctxvars, pipeline, verr, outcome, runvars>>

NextCombine == CombineArtifactFrames

SpecCombine == InitCombine /\ [][NextCombine]_vars

\* The parts of an artifact were combined with a supported strategy.
PartsCombined ==
    /\ pc = "returned"
    /\ args.fn = "combine_artifact_frames"
    /\ args.frames # <<>>
    /\ args.strategy \in CombineStrategy

\* The dtype a part declares for each of its columns.
ColumnTypes(part) ==
    [c \in Range(part.columns) |->
        part.dtypes[CHOOSE i \in 1..Len(part.columns) : part.columns[i] = c]]

\* All rows of all parts in part order over the union of the columns,
\* missing values filled.
UnionRows(frames) ==
    LET all == UNION {Range(frames[i].columns) : i \in 1..Len(frames)}
    IN Flatten([i \in 1..Len(frames) |->
                  [j \in 1..Len(frames[i].rows) |->
                      [c \in all |-> IF c \in Range(frames[i].columns)
                                     THEN frames[i].rows[j][c] ELSE "null"]]])

\* C24, as claimed: concat fails exactly when the parts do not all have the
\* same set of columns; validate_schema fails exactly when the column sets or
\* the per-column types differ; union_by_name never fails and returns all
\* rows in part order over the union of the columns.
C24_Claimed ==
    PartsCombined =>
        LET frames == args.frames
            sameSets == \A i \in 1..Len(frames) :
                           Range(frames[i].columns) = Range(frames[1].columns)
            sameTypes == \A i \in 1..Len(frames) : ColumnTypes(frames[i]) = ColumnTypes(frames[1])
        IN /\ args.strategy = CONCAT => (ret.raised # NoneValue <=> ~sameSets)
           /\ args.strategy = VALIDATE_SCHEMA =>
                 (ret.raised # NoneValue <=> ~(sameSets /\ sameTypes))
           /\ args.strategy = UNION_BY_NAME =>
                 /\ ret.raised = NoneValue
                 /\ Range(ret.data.columns) = UNION {Range(frames[i].columns) : i \in 1..Len(frames)}
                 /\ ret.data.rows = UnionRows(frames)

\* C24, amended: concat fails exactly when some part's column list differs
\* from the first part's, in names or in order; validate_schema fails exactly
\* when the column lists or the dtype lists differ; otherwise both return the
\* rows of all parts in part order. union_by_name never fails on a column
\* mismatch and returns all rows of all parts in part order over the union of
\* the columns, missing values filled.
C24_CombineStrategies ==
    PartsCombined =>
        LET frames == args.frames
            sameColumns == \A i \in 1..Len(frames) : frames[i].columns = frames[1].columns
            sameDtypes == \A i \in 1..Len(frames) : frames[i].dtypes = frames[1].dtypes
            combined == /\ ret.raised = NoneValue
                        /\ Range(ret.data.columns) =
                              UNION {Range(frames[i].columns) : i \in 1..Len(frames)}
                        /\ ret.data.rows = UnionRows(frames)
        IN /\ args.strategy = CONCAT =>
                 IF sameColumns THEN combined ELSE ret.raised = Raise("ValueError", "Column mismatch")
           /\ args.strategy = VALIDATE_SCHEMA =>
                 IF sameColumns /\ sameDtypes THEN combined ELSE ret.raised # NoneValue
           /\ args.strategy = UNION_BY_NAME => combined

\* Two parts with columns (a, b) and (b, a): the same set of columns in
\* another order, and concat fails.
C24_Witness ==
    /\ PartsCombined
    /\ args.strategy = CONCAT
    /\ Len(args.frames) = 2
    /\ args.frames[1].columns = <<"a", "b">>
    /\ args.frames[2].columns = <<"b", "a">>
    /\ ret.raised = Raise("ValueError", "Column mismatch")

----------------------------------------------------------------------------
(* Rename policy: apply_rename_policy (trakt/core/policies.py).              *)

\* RenamePolicy(mapping, required, optional, warn_on_missing_optional); the
\* mapping as its (old, new) items.
RenamePolicy(mapping, required, optional, warn_on_missing_optional) ==
    [mapping |-> mapping, required |-> required, optional |-> optional,
     warn_on_missing_optional |-> warn_on_missing_optional]

RenamePolicies ==
    {RenamePolicy(mapping, required, optional, warn) :
        mapping \in {<<>>, << <<"amount", "total">> >>, << <<"amount", "id">> >>,
                     << <<"id", "key">>, <<"amount", "key">> >>, << <<"country", "id">> >>},
        required \in {<<>>, <<"id">>, <<"country">>, <<"id", "country">>},
        optional \in {<<>>, <<"country">>, <<"amount">>, <<"country", "city">>},
        warn \in BOOLEAN}

\* A table by its column labels in order and its rows, each row a value per
\* column position.
Table(columns, rows) == [columns |-> columns, rows |-> rows]

RenameTables ==
    {Table(columns, <<columns>>) :
        columns \in {<<"id", "amount">>, <<"id">>, <<"id", "amount", "total">>}}

\* data.rename(columns=active_mapping): the labels are replaced, the rows stay.
rename_columns(data, mapping) ==
    LET active_mapping == SelectSeq(mapping, LAMBDA item : item[1] \in Range(data.columns))
        renamed(c) ==
            IF \E k \in 1..Len(active_mapping) : active_mapping[k][1] = c
            THEN active_mapping[CHOOSE k \in 1..Len(active_mapping) : active_mapping[k][1] = c][2]
            ELSE c
    IN Table([i \in 1..Len(data.columns) |-> renamed(data.columns[i])], data.rows)

\* Variant: no label is reported as duplicated.
duplicated_columns_None(columns) == {}

\* The labels that renamed.columns.value_counts() counts more than once.
duplicated_columns(columns) ==
    {c \in Range(columns) : Cardinality({i \in 1..Len(columns) : columns[i] = c}) > 1}

\* What a call of apply_rename_policy leaves.
RenameOutcome(raised, data, emitted, ctx) ==
    [fn |-> "apply_rename_policy", raised |-> raised,
     data |-> IF raised = NoneValue THEN data ELSE NoCombined,
     emitted |-> emitted, events |-> _emit_policy_event(ctx, emitted)]

\* apply_rename_policy(data, policy, ctx=ctx)
apply_rename_policy(data, policy, ctx) ==
    LET required_missing == SortedColumns(Range(policy.required) \ Range(data.columns))
        optional_missing == SortedColumns(Range(policy.optional) \ Range(data.columns))
        emitted == IF optional_missing # <<>> /\ policy.warn_on_missing_optional
                   THEN <<[name |-> "warning.rename_optional_missing",
                           columns |-> optional_missing]>>
                   ELSE <<>>
        renamed == rename_columns(data, policy.mapping)
    IN IF required_missing # <<>>
       THEN RenameOutcome(Raise("ValueError", "Missing required columns"), renamed, <<>>, ctx)
       ELSE IF duplicated_columns(renamed.columns) # {}
       THEN RenameOutcome(Raise("ValueError", "duplicate target columns"), renamed,
                          emitted, ctx)
       ELSE RenameOutcome(NoneValue, renamed, emitted, ctx)

InitRename ==
    /\ \E data \in RenameTables, policy \in RenamePolicies, ctx \in QualityContexts :
          args = [fn |-> "apply_rename_policy", data |-> data, policy |-> policy, ctx |-> ctx]
    /\ ret = NoCall
    /\ pc = "call"
    /\ pipeline = Pipeline("batch", <<>>, <<>>, <<>>)
    /\ verr = NoValidationError
    /\ outcome = NotStarted
    /\ RunIdle
    /\ CtxIdle

ApplyRenamePolicy ==
    /\ pc = "call"
    /\ args.fn = "apply_rename_policy"
    /\ ret' = apply_rename_policy(args.data, args.policy, args.ctx)
    /\ pc' = "returned"
    /\ UNCHANGED <<args, ctxvars, pipeline, verr, outcome, runvars>>

NextRename == ApplyRenamePolicy

SpecRename == InitRename /\ [][NextRename]_vars

RenameCalled == pc = "returned" /\ args.fn = "apply_rename_policy"

\* The label column c has after renaming: its mapping target, or itself.
RenameTarget(c) ==
    IF \E k \in 1..Len(args.policy.mapping) : args.policy.mapping[k][1] = c
    THEN args.policy.mapping[CHOOSE k \in 1..Len(args.policy.mapping) :
                                args.policy.mapping[k][1] = c][2]
    ELSE c

\* C25: the call raises when a required column is absent (and emits nothing);
\* otherwise absent optional columns give exactly one diagnostic listing them,
\* unless warn_on_missing_optional is false, and do not keep the call from
\* returning the renamed data; after renaming the call raises when two result
\* columns have the same name; it returns the renamed data in every other
\* case, and never both raises and returns data.
C25_RenameContract ==
    RenameCalled =>
        LET columns == args.data.columns
            required_absent == Range(args.policy.required) \ Range(columns)
            optional_absent == Range(args.policy.optional) \ Range(columns)
            clash == \E i, j \in 1..Len(columns) :
                        i < j /\ RenameTarget(columns[i]) = RenameTarget(columns[j])
        IN /\ required_absent # {} => ret.raised # NoneValue /\ ret.emitted = <<>>
           /\ required_absent = {} =>
                 /\ Len(ret.emitted) =
                       (IF optional_absent # {} /\ args.policy.warn_on_missing_optional
                        THEN 1 ELSE 0)
                 /\ \A i \in 1..Len(ret.emitted) :
                       /\ ret.emitted[i].name = "warning.rename_optional_missing"
                       /\ Range(ret.emitted[i].columns) = optional_absent
                 /\ clash => ret.raised # NoneValue
                 /\ ~clash =>
                       /\ ret.raised = NoneValue
                       /\ ret.data.columns = [i \in 1..Len(columns) |-> RenameTarget(columns[i])]
                       /\ ret.data.rows = args.data.rows
           /\ ret.raised # NoneValue => ret.data = NoCombined
           /\ args.ctx = "Context" => ret.events = ret.emitted

\* id is required and present, country is optional and absent, amount is
\* renamed to total: one diagnostic, the renamed table is returned.
C25_Witness ==
    /\ RenameCalled
    /\ args.ctx = "Context"
    /\ args.data.columns = <<"id", "amount">>
    /\ args.policy.required = <<"id">>
    /\ args.policy.optional = <<"country">>
    /\ args.policy.mapping = << <<"amount", "total">> >>
    /\ ret.raised = NoneValue
    /\ ret.data.columns = <<"id", "total">>
    /\ Len(ret.events) = 1
    /\ ret.events[1].columns = <<"country">>

----------------------------------------------------------------------------
(* Loading an input artifact: validate_artifact_schema                       *)
(* (trakt/core/artifacts.py), CsvArtifactAdapter.read_many and               *)
(* _iter_csv_chunks (trakt/io/adapters.py), in a run of one step.            *)

\* Artifact.schema: None, a list of column names, a mapping column -> dtype,
\* or a mapping with the keys "columns" and / or "dtypes". The dtypes as the
\* mapping's items.
Schema(kind, columns, dtypes) == [kind |-> kind, columns |-> columns, dtypes |-> dtypes]

NoSchema == Schema("none", <<>>, <<>>)

Schemas ==
    {NoSchema}
    \cup {Schema("list", cols, <<>>) :
            cols \in {<<"id", "amount">>, <<"id", "amount", "currency">>, <<"id", "id">>}}
    \cup {Schema("dtypes", <<>>, dts) :
            dts \in {<<>>, << <<"id", "int64">> >>,
                     << <<"id", "int64">>, <<"amount", "int64">> >>,
                     << <<"amount", "float64">>, <<"id", "int64">> >>,
                     << <<"id", "int64">>, <<"amount", "int64">>, <<"currency", "object">> >>}}
    \cup {Schema("columns+dtypes", <<"id", "amount">>, dts) :
            dts \in {<< <<"amount", "float64">> >>, << <<"currency", "object">> >>}}

\* The files of the input: each read as one frame (batch) or one chunk (stream).
InputFrames ==
    {Part(cols, [i \in 1..Len(cols) |-> dts[i]], <<>>) :
        cols \in {<<"id", "amount">>, <<"amount", "id">>, <<"id">>},
        dts \in [1..2 -> {"int64", "float64"}]}

\* _parse_schema_definition(schema): the exception it raises, or NoneValue.
_parse_schema_definition(schema) ==
    IF /\ schema.kind \in {"list", "columns+dtypes"}
       /\ Cardinality(Range(schema.columns)) # Len(schema.columns)
    THEN Raise("ValueError", "schema columns contain duplicates")
    ELSE IF /\ schema.kind = "columns+dtypes"
            /\ \E i \in 1..Len(schema.dtypes) : schema.dtypes[i][1] \notin Range(schema.columns)
    THEN Raise("ValueError", "schema dtypes include unknown columns")
    ELSE NoneValue

\* Variant: a declared column list only has to name the same columns.
ColumnsDiffer_AsSets(actual_columns, columns) == Range(actual_columns) # Range(columns)

\* actual_columns != columns
ColumnsDiffer(actual_columns, columns) == actual_columns # columns

\* validate_artifact_schema(frame, schema): the exception it raises, or NoneValue.
validate_artifact_schema(frame, schema) ==
    IF schema.kind = "none" THEN NoneValue
    ELSE IF _parse_schema_definition(schema) # NoneValue THEN _parse_schema_definition(schema)
    ELSE
    LET has_columns == schema.kind \in {"list", "columns+dtypes"}
        has_dtypes == schema.kind \in {"dtypes", "columns+dtypes"}
        actual_columns == frame.columns
        declared == {schema.dtypes[i][1] : i \in 1..Len(schema.dtypes)}
        missing == declared \ Range(actual_columns)
        extra == Range(actual_columns) \ declared
        actual_dtype(name) ==
            IF name \in Range(actual_columns)
            THEN frame.dtypes[CHOOSE i \in 1..Len(actual_columns) : actual_columns[i] = name]
            ELSE None
        mismatched == {i \in 1..Len(schema.dtypes) :
                          actual_dtype(schema.dtypes[i][1]) # schema.dtypes[i][2]}
    IN IF has_columns /\ ColumnsDiffer(actual_columns, schema.columns)
       THEN Raise("ValueError", "schema columns mismatch")
       ELSE IF ~has_columns /\ has_dtypes /\ (missing # {} \/ extra # {})
       THEN Raise("ValueError", "schema columns mismatch")
       ELSE IF schema.dtypes # <<>> /\ mismatched # {}
       THEN Raise("ValueError", "schema dtypes mismatch")
       ELSE NoneValue

\* The first exception validate_artifact_schema raises over frames[from..],
\* with the index of the frame it is raised for; upto = Len(frames) + 1 and
\* NoneValue when none fails.
FirstInvalid(frames, schema, from) ==
    LET failing == {i \in from..Len(frames) :
                       validate_artifact_schema(frames[i], schema) # NoneValue}
        at == IF failing = {} THEN Len(frames) + 1
              ELSE CHOOSE i \in failing : \A j \in failing : i <= j
    IN [at |-> at,
        raised |-> IF failing = {} THEN NoneValue
                   ELSE validate_artifact_schema(frames[at], schema)]

\* An exception as run() sees it.
ExcOf(raised) == Exc("Exception", raised[2], raised[3])

\* The payload bound to the input name: nothing yet, a frame (batch) or the
\* generator _iter_csv_chunks returns (stream), which is at chunk `position`;
\* and the chunks each iteration over the payload has yielded.
Payload(kind, position, iterations) ==
    [fn |-> "read_many", kind |-> kind, position |-> position, iterations |-> iterations]

\* The runs: a pipeline of one input and one step bound to it, whose output
\* section writes the input artifact itself; the step either iterates its
\* input or hands it on untouched.
InitInputs ==
    /\ \E mode \in {"batch", "stream"}, strategy \in CombineStrategy, schema \in Schemas,
          frames \in SeqsUpTo(InputFrames, MaxParts) \ {<<>>}, iterates \in BOOLEAN :
          args = [fn |-> "read_many", execution_mode |-> mode, combine_strategy |-> strategy,
                  schema |-> schema, frames |-> frames, step_iterates |-> iterates]
    /\ ret = NoCall
    /\ pc = "call"
    /\ pipeline = Pipeline("batch", <<>>, <<>>, <<>>)
    /\ verr = NoValidationError
    /\ outcome = NotStarted
    /\ RunIdle
    /\ CtxIdle

\* LocalRunner.load_inputs -> CsvArtifactAdapter.read_many: in batch mode every
\* frame is read and validated, then the frames are combined; in stream mode
\* the generator is returned, nothing is read or validated yet.
ReadMany ==
    /\ pc = "call"
    /\ args.fn = "read_many"
    /\ loads' = loads + 1
    /\ IF args.execution_mode = "stream"
       THEN IF args.combine_strategy # CONCAT
            THEN /\ failure' = [where |-> "load_inputs",
                                exc |-> Exc("Exception", "ValueError", "stream supports concat only")]
                 /\ ret' = Payload("none", 0, <<>>)
                 /\ pc' = "failed"
            ELSE /\ ret' = Payload("generator", 1, <<>>)
                 /\ pc' = "loaded"
                 /\ UNCHANGED failure
       ELSE LET invalid == FirstInvalid(args.frames, args.schema, 1)
                combined == IF Len(args.frames) = 1 THEN NoneValue
                            ELSE combine_artifact_frames(args.frames, args.combine_strategy).raised
            IN IF invalid.raised # NoneValue
               THEN /\ failure' = [where |-> "load_inputs", exc |-> ExcOf(invalid.raised)]
                    /\ ret' = Payload("none", 0, <<>>)
                    /\ pc' = "failed"
               ELSE IF combined # NoneValue
               THEN /\ failure' = [where |-> "load_inputs", exc |-> ExcOf(combined)]
                    /\ ret' = Payload("none", 0, <<>>)
                    /\ pc' = "failed"
               ELSE /\ ret' = Payload("frame", 0, <<>>)
                    /\ pc' = "loaded"
                    /\ UNCHANGED failure
    /\ UNCHANGED <<args, ctxvars, pipeline, verr, outcome, artifacts, step_reports, invoked,
                   out_calls, outputs, error, exc, result, manifest_calls, manifest_files,
                   manifest_exc>>

\* Where `for chunk in payload` starts: a generator goes on where it is.
IterationStart(payload) == payload.position

\* for chunk in payload: the generator reads chunk after chunk, validates each
\* and yields it, until a chunk is invalid or no chunk is left.
Iterate(payload) ==
    LET start == IterationStart(payload)
        invalid == FirstInvalid(args.frames, args.schema, start)
        yielded == SubSeq(args.frames, start, invalid.at - 1)
    IN [payload |-> Payload("generator", IF invalid.raised # NoneValue THEN Len(args.frames) + 1
                                         ELSE invalid.at,
                            Append(payload.iterations, yielded)),
        raised |-> invalid.raised]

\* execute_step for the one step: its handler is invoked with the payload; in
\* stream mode a handler that consumes its input iterates the generator.
RunInputStep ==
    /\ pc = "loaded"
    /\ args.fn = "read_many"
    /\ invoked' = Append(invoked, "s1")
    /\ IF ret.kind = "generator" /\ args.step_iterates
       THEN LET it == Iterate(ret)
            IN /\ ret' = it.payload
               /\ IF it.raised # NoneValue
                  THEN /\ failure' = [where |-> "step", exc |-> ExcOf(it.raised)]
                       /\ pc' = "failed"
                  ELSE /\ pc' = "stepped"
                       /\ UNCHANGED failure
       ELSE /\ pc' = "stepped"
            /\ UNCHANGED <<ret, failure>>
    /\ UNCHANGED <<args, ctxvars, pipeline, verr, outcome, artifacts, step_reports, loads,
                   out_calls, outputs, error, exc, result, manifest_calls, manifest_files,
                   manifest_exc>>

\* LocalRunner.write_outputs for the output whose source is the input: in
\* stream mode _write_csv_stream iterates the payload.
WriteInputAsOutput ==
    /\ pc = "stepped"
    /\ args.fn = "read_many"
    /\ out_calls' = out_calls + 1
    /\ IF ret.kind = "generator"
       THEN LET it == Iterate(ret)
            IN /\ ret' = it.payload
               /\ IF it.raised # NoneValue
                  THEN /\ failure' = [where |-> "write_outputs", exc |-> ExcOf(it.raised)]
                       /\ pc' = "failed"
                  ELSE /\ pc' = "done"
                       /\ UNCHANGED failure
       ELSE /\ pc' = "done"
            /\ UNCHANGED <<ret, failure>>
    /\ UNCHANGED <<args, ctxvars, pipeline, verr, outcome, artifacts, step_reports, invoked,
                   loads, outputs, error, exc, result, manifest_calls, manifest_files,
                   manifest_exc>>

NextInputs == ReadMany \/ RunInputStep \/ WriteInputAsOutput

SpecInputs == InitInputs /\ [][NextInputs]_vars

----------------------------------------------------------------------------
(* Properties of input loading, checked under SpecInputs.                    *)

InputRun == args.fn = "read_many" /\ pc # "call"

\* The declared schema is one _parse_schema_definition accepts.
WellFormedSchema(schema) ==
    /\ Cardinality(Range(schema.columns)) = Len(schema.columns)
    /\ schema.kind = "columns+dtypes" =>
          \A i \in 1..Len(schema.dtypes) : schema.dtypes[i][1] \in Range(schema.columns)

\* The frame does not have the declared schema: with a declared column list
\* its columns are not exactly that list; with a declared column -> type map a
\* declared column is missing, an undeclared one is present, or a declared
\* column has another type.
SchemaMismatch(frame, schema) ==
    LET declared == {schema.dtypes[i][1] : i \in 1..Len(schema.dtypes)}
        typeDiffers == \E i \in 1..Len(schema.dtypes), k \in 1..Len(frame.columns) :
                          /\ frame.columns[k] = schema.dtypes[i][1]
                          /\ frame.dtypes[k] # schema.dtypes[i][2]
    IN CASE schema.kind = "none" -> FALSE
         [] schema.kind = "list" -> frame.columns # schema.columns
         [] schema.kind = "dtypes" -> declared # Range(frame.columns) \/ typeDiffers
         [] OTHER -> frame.columns # schema.columns \/ typeDiffers

\* The run failed with a schema validation error.
SchemaFailure ==
    failure.exc.message \in {"schema columns mismatch", "schema dtypes mismatch"}

MismatchingFrames ==
    {i \in 1..Len(args.frames) : SchemaMismatch(args.frames[i], args.schema)}

\* C26, as claimed: a mismatch is always fatal, a schema failure only comes
\* from a mismatch, and a run whose input fails schema validation has
\* executed no step.
C26_Claimed ==
    (InputRun /\ WellFormedSchema(args.schema)) =>
        /\ pc = "done" => MismatchingFrames = {}
        /\ SchemaFailure => MismatchingFrames # {}
        /\ SchemaFailure => invoked = <<>>

\* C26, amended: schema validation has no warn mode: a run never completes
\* with a frame or chunk that mismatches the declared schema, and a schema
\* failure only comes from a mismatch (declared list: the actual columns are
\* not exactly the list; declared types: a declared column missing, an
\* undeclared one present, or a type differing). In batch mode every frame is
\* validated while the input is loaded, so a failing run executes no step; in
\* stream mode a chunk is validated when the payload is iterated, so the
\* failure is raised inside or after the step that was handed the payload.
C26_SchemaMismatchFatal ==
    (InputRun /\ WellFormedSchema(args.schema)) =>
        /\ pc = "done" => MismatchingFrames = {}
        /\ SchemaFailure => MismatchingFrames # {}
        /\ args.execution_mode = "batch" =>
              /\ MismatchingFrames # {} <=> SchemaFailure
              /\ SchemaFailure =>
                    /\ pc = "failed"
                    /\ failure.where = "load_inputs"
                    /\ invoked = <<>>
        /\ (args.execution_mode = "stream" /\ SchemaFailure) =>
              /\ pc = "failed"
              /\ failure.where \in {"step", "write_outputs"}
              /\ invoked = <<"s1">>

\* A batch run whose file has the columns (id, amount) while (id, amount,
\* currency) are declared fails while loading; no step was executed.
C26_Witness ==
    /\ InputRun
    /\ args.execution_mode = "batch"
    /\ args.schema = Schema("list", <<"id", "amount", "currency">>, <<>>)
    /\ Len(args.frames) = 1
    /\ args.frames[1].columns = <<"id", "amount">>
    /\ pc = "failed"
    /\ failure.exc.message = "schema columns mismatch"
    /\ invoked = <<>>

\* C27, as claimed: iterating the stream payload of an input a second time
\* (here: the output writer after the step consumed it) yields the same
\* chunks as the first iteration.
C27_Claimed ==
    (InputRun /\ pc = "done" /\ args.execution_mode = "stream" /\ args.step_iterates) =>
        /\ Len(ret.iterations) = 2
        /\ ret.iterations[2] = ret.iterations[1]

----------------------------------------------------------------------------
(* Loading a pipeline definition: load_pipeline_from_yaml                    *)
(* (trakt/core/loader.py).                                                   *)

\* The keys a document may carry beyond the known ones, one per level.
UnknownKeySets(key) == {{}, {key}}

\* A pipeline document of one input `a`, one step s1 reading it and writing
\* `b`, and one output o1: the unrecognized keys at each of its levels, its
\* execution settings and the form of its outputs section. The modes are
\* written stripped and in lower case.
Documents ==
    [root_unknown : UnknownKeySets("nmae"),
     execution : {"absent", "mapping"},
     execution_unknown : UnknownKeySets("retries"),
     nested_mode : {None, "batch", "stream"},
     execution_mode : {None, "batch"},
     input_unknown : UnknownKeySets("delimiter"),
     step_unknown : UnknownKeySets("when"),
     outputs_form : {"datasets", "flat"},
     outputs_unknown : UnknownKeySets("format"),
     dataset_unknown : UnknownKeySets("compression"),
     output_source : {"b", "c"}]

\* A document that can be written: keys of the execution mapping need the
\* mapping, and a flat outputs mapping has output names only.
IsDocument(doc) ==
    /\ doc.execution = "absent" => doc.execution_unknown = {} /\ doc.nested_mode = None
    /\ doc.outputs_form = "flat" => doc.outputs_unknown = {}

PipelineLoadError(what) == Raise("PipelineLoadError", what)

\* _coerce_execution_mode(value, field_name) on a stripped lower-case string.
_coerce_execution_mode(value) == IF value = None THEN "batch" ELSE value

\* _parse_execution_mode(payload): a mode, or the error raised.
_parse_execution_mode(doc) ==
    IF doc.execution = "absent" THEN Str(_coerce_execution_mode(doc.execution_mode))
    ELSE IF /\ doc.nested_mode # None
            /\ doc.execution_mode # None
            /\ doc.nested_mode # doc.execution_mode
    THEN PipelineLoadError("conflicting execution modes")
    ELSE Str(_coerce_execution_mode(IF doc.nested_mode # None THEN doc.nested_mode
                                    ELSE doc.execution_mode))

\* _parse_input_definition(name, definition, strict_unknown_keys): the keys
\* that end up in the artifact's metadata, or the error raised.
_parse_input_definition(doc, strict_unknown_keys) ==
    IF strict_unknown_keys /\ doc.input_unknown # {}
    THEN PipelineLoadError("Input has unknown fields")
    ELSE <<"metadata", doc.input_unknown>>

\* _parse_steps(raw_steps, registry, strict_unknown_keys)
_parse_steps(doc, strict_unknown_keys) ==
    IF strict_unknown_keys /\ doc.step_unknown # {}
    THEN PipelineLoadError("Step has unknown fields")
    ELSE NoneValue

\* _parse_outputs(raw_outputs, strict_unknown_keys): the keys that end up in
\* the output dataset's metadata, or the error raised.
_parse_outputs(doc, strict_unknown_keys) ==
    IF doc.outputs_form = "datasets" /\ strict_unknown_keys /\ doc.outputs_unknown # {}
    THEN PipelineLoadError("outputs has unknown fields when using datasets")
    ELSE IF strict_unknown_keys /\ doc.dataset_unknown # {}
    THEN PipelineLoadError("Output dataset has unknown fields")
    ELSE <<"metadata", doc.dataset_unknown>>

\* The Pipeline the document describes.
DocumentPipeline(doc, mode) ==
    Pipeline(mode,
             <<Artifact("a", << <<"c", "s", "v">>, CONCAT, AbsentFlag >>)>>,
             <<MkStep(1, [inputs |-> <<"a">>, outputs |-> <<"b">>,
                          supports_batch |-> TRUE, supports_stream |-> TRUE], TRUE)>>,
             <<[target |-> Target(1), source |-> doc.output_source]>>)

NoPipeline == Pipeline("batch", <<>>, <<>>, <<>>)

\* What load_pipeline_from_yaml leaves: the error raised or the pipeline, and
\* the unrecognized keys kept as metadata.
LoadOutcome(raised, loaded, input_metadata, output_metadata) ==
    [fn |-> "load_pipeline_from_yaml", raised |-> raised,
     pipeline |-> IF raised = NoneValue THEN loaded ELSE NoPipeline,
     input_metadata |-> input_metadata, output_metadata |-> output_metadata]

\* load_pipeline_from_yaml(pipeline_file, strict_unknown_keys=...)
load_pipeline_from_yaml(doc, strict_unknown_keys) ==
    LET execution_mode == _parse_execution_mode(doc)
        parsed_inputs == _parse_input_definition(doc, strict_unknown_keys)
        parsed_steps == _parse_steps(doc, strict_unknown_keys)
        parsed_outputs == _parse_outputs(doc, strict_unknown_keys)
    IN IF IsRaise(execution_mode) THEN LoadOutcome(execution_mode, NoPipeline, {}, {})
       ELSE IF IsRaise(parsed_inputs) THEN LoadOutcome(parsed_inputs, NoPipeline, {}, {})
       ELSE IF IsRaise(parsed_steps) THEN LoadOutcome(parsed_steps, NoPipeline, {}, {})
       ELSE IF IsRaise(parsed_outputs) THEN LoadOutcome(parsed_outputs, NoPipeline, {}, {})
       ELSE IF validate(DocumentPipeline(doc, execution_mode[2])) # NoValidationError
       THEN LoadOutcome(PipelineLoadError("Pipeline is invalid"), NoPipeline, {}, {})
       ELSE LoadOutcome(NoneValue, DocumentPipeline(doc, execution_mode[2]),
                        parsed_inputs[2], parsed_outputs[2])

InitLoad ==
    /\ \E doc \in Documents, strict \in BOOLEAN :
          /\ IsDocument(doc)
          /\ args = [fn |-> "load_pipeline_from_yaml", doc |-> doc,
                     strict_unknown_keys |-> strict]
    /\ ret = NoCall
    /\ pc = "call"
    /\ pipeline = Pipeline("batch", <<>>, <<>>, <<>>)
    /\ verr = NoValidationError
    /\ outcome = NotStarted
    /\ RunIdle
    /\ CtxIdle

LoadPipelineFromYaml ==
    /\ pc = "call"
    /\ args.fn = "load_pipeline_from_yaml"
    /\ ret' = load_pipeline_from_yaml(args.doc, args.strict_unknown_keys)
    /\ pc' = "returned"
    /\ UNCHANGED <<args, ctxvars, pipeline, verr, outcome, runvars>>

NextLoad == LoadPipelineFromYaml

SpecLoad == InitLoad /\ [][NextLoad]_vars

\* The unrecognized keys of the document, over all its levels.
UnknownKeys(doc) ==
    doc.root_unknown \cup doc.execution_unknown \cup doc.input_unknown
        \cup doc.step_unknown \cup doc.outputs_unknown \cup doc.dataset_unknown

\* C28, as claimed: with strict mode enabled, loading fails with a definition
\* error when the document has an unrecognized key at any level: the root
\* mapping, the execution mapping, an input definition, a step definition,
\* the outputs mapping or an output-dataset entry.
C28_Claimed ==
    (/\ pc = "returned"
     /\ args.fn = "load_pipeline_from_yaml"
     /\ args.strict_unknown_keys
     /\ UnknownKeys(args.doc) # {}) =>
        /\ ret.raised # NoneValue
        /\ ret.raised[2] = "PipelineLoadError"

----------------------------------------------------------------------------
(* Runtime overrides of const bindings: apply_const_overrides                *)
(* (trakt/core/overrides.py).                                                *)

\* The step definitions of the pipeline whose bindings are overridden: with
\* or without declared names, the binding `multiplier` absent, a const of
\* either wrapper form, a bare literal or an artifact reference.
OverrideDefinitions ==
    {<<dins, douts, Dict(SelectSeq(<< <<"input", i>>, <<"multiplier", m>>, <<"output", Str("b")>> >>,
                                   LAMBDA it : it[2] # NoneValue))>> :
        dins \in {<<>>, <<"input", "multiplier">>},
        douts \in {<<>>, <<"output">>},
        i \in {Str("a"), List(<<Str("a"), Const(Str("b"))>>)},
        m \in {NoneValue, Const(IntValue(1)), Dict(<< <<"const", IntValue(1)>> >>),
               IntValue(3), Str("b")}}

\* pipeline.steps: s1 as built by from_definition or a plain Step subclass,
\* and possibly a second step s2 with one const binding.
OverrideFirstSteps ==
    {ResolvedStep(r[2]) :
        r \in {x \in {from_definition("s1", d[1], d[2], d[3]) : d \in OverrideDefinitions} :
                 x[1] = "step"}}
      \cup {PlainStep("s1", <<"a">>, <<"b">>)}

OverrideSecondStep ==
    ResolvedStep(from_definition("s2", <<>>, <<>>,
        Dict(<< <<"input", Str("b")>>, <<"currency", Dict(<< <<"const", Str("usd")>> >>)>>,
                <<"output", Str("c")>> >>))[2])

OverridePipelines ==
    {<<s>> : s \in OverrideFirstSteps} \cup {<<s, OverrideSecondStep>> : s \in OverrideFirstSteps}

\* The params of one step of the overrides mapping, in insertion order.
OverrideItems ==
    {<<"multiplier", IntValue(2)>>, <<"multiplier", Str("a")>>, <<"input", IntValue(2)>>,
     <<"output", IntValue(2)>>, <<"currency", IntValue(2)>>}

OverrideParams ==
    {Dict(items) : items \in {its \in SeqsUpTo(OverrideItems, 2) :
                                 \A i, j \in 1..Len(its) : i # j => its[i][1] # its[j][1]}}

\* The overrides mapping (step id -> param -> value), in insertion order.
OverrideMappings ==
    {[i \in 1..Len(ids) |-> <<ids[i], ps[i]>>] :
        ids \in {x \in SeqsUpTo({"s1", "s2", "s9"}, 2) :
                    \A i, j \in 1..Len(x) : i # j => x[i] # x[j]},
        ps \in [1..2 -> OverrideParams]}

\* Variant: the override is always wrapped as a Const object.
_wrap_const_override_AlwaysConst(binding, value) == Const(value)

\* _wrap_const_override(binding, value)
_wrap_const_override(binding, value) ==
    IF binding[1] = "Const" THEN Const(value) ELSE Dict(<< <<"const", value>> >>)

\* steps_by_id.get(step_id): the position of the step, 0 for None.
StepById(steps, step_id) ==
    IF \E i \in 1..Len(steps) : steps[i][2].id = step_id
    THEN CHOOSE i \in 1..Len(steps) :
            /\ steps[i][2].id = step_id
            /\ \A j \in (i + 1)..Len(steps) : steps[j][2].id # step_id
    ELSE 0

\* The inner loop of apply_const_overrides over the params of one step: the
\* step's bindings as the loop leaves them, and the error raised, if any.
OverrideStepParams(step_bindings, params) ==
    LET acc[i \in 0..Len(params[2])] ==
            IF i = 0 THEN [raised |-> NoneValue, bindings |-> step_bindings]
            ELSE IF acc[i - 1].raised # NoneValue THEN acc[i - 1]
            ELSE LET param == params[2][i][1]
                     value == params[2][i][2]
                     current == acc[i - 1].bindings
                 IN IF ~DictHas(current, param)
                    THEN [acc[i - 1] EXCEPT !.raised = Raise("ValueError", "has no binding named")]
                    ELSE IF ~is_const_binding(DictGet(current, param))
                    THEN [acc[i - 1] EXCEPT !.raised = Raise("ValueError", "is not a const binding")]
                    ELSE [acc[i - 1] EXCEPT !.bindings =
                             DictSet(current, param,
                                     _wrap_const_override(DictGet(current, param), value))]
    IN acc[Len(params[2])]

\* apply_const_overrides(pipeline, overrides): the steps of the pipeline as
\* the call leaves them (it works in place), and the error raised, if any.
apply_const_overrides(steps, overrides) ==
    LET acc[i \in 0..Len(overrides)] ==
            IF i = 0 THEN [raised |-> NoneValue, steps |-> steps]
            ELSE IF acc[i - 1].raised # NoneValue THEN acc[i - 1]
            ELSE LET at == StepById(steps, overrides[i][1]) IN
                 IF at = 0
                 THEN [acc[i - 1] EXCEPT !.raised = Raise("ValueError", "Unknown step id")]
                 ELSE IF steps[at][1] # "ResolvedStep"
                 THEN [acc[i - 1] EXCEPT
                          !.raised = Raise("ValueError", "does not support const overrides")]
                 ELSE LET done == OverrideStepParams(acc[i - 1].steps[at][2].bindings,
                                                     overrides[i][2])
                      IN [raised |-> done.raised,
                          steps |-> [acc[i - 1].steps EXCEPT ![at] =
                                        ResolvedStep([@[2] EXCEPT !.bindings = done.bindings])]]
    IN [fn |-> "apply_const_overrides", raised |-> acc[Len(overrides)].raised,
        steps |-> acc[Len(overrides)].steps]

InitOverrides ==
    /\ \E steps \in OverridePipelines, overrides \in OverrideMappings :
          args = [fn |-> "apply_const_overrides", steps |-> steps, overrides |-> overrides]
    /\ ret = NoCall
    /\ pc = "call"
    /\ pipeline = Pipeline("batch", <<>>, <<>>, <<>>)
    /\ verr = NoValidationError
    /\ outcome = NotStarted
    /\ RunIdle
    /\ CtxIdle

ApplyConstOverrides ==
    /\ pc = "call"
    /\ args.fn = "apply_const_overrides"
    /\ ret' = apply_const_overrides(args.steps, args.overrides)
    /\ pc' = "returned"
    /\ UNCHANGED <<args, ctxvars, pipeline, verr, outcome, runvars>>

NextOverrides == ApplyConstOverrides

SpecOverrides == InitOverrides /\ [][NextOverrides]_vars

OverridesApplied == pc = "returned" /\ args.fn = "apply_const_overrides"

\* The override of `param` on the step of id step_id has nothing to replace:
\* no such step, no binding of that name, or a binding that is not a const.
NotOverridable(step_id, param) ==
    LET at == StepById(args.steps, step_id) IN
    \/ at = 0
    \/ /\ args.steps[at][1] = "ResolvedStep"
       /\ \/ ~DictHas(args.steps[at][2].bindings, param)
          \/ ~is_const_binding(DictGet(args.steps[at][2].bindings, param))

\* The artifact names a step reads and writes, as stored on the step and as
\* its bindings give them.
ArtifactNames(step) ==
    IF step[1] = "ResolvedStep"
    THEN <<step[2].inputs, step[2].outputs, _resolve_bound_inputs(step[2]),
           _resolve_bound_outputs(step[2]), output_bindings(step[2])>>
    ELSE <<step[2].inputs, step[2].outputs>>

\* C29: apply_const_overrides replaces the payload of a const binding with the
\* override value and keeps the wrapper form (Const object or {"const": ...}
\* mapping); it raises ValueError when the step id is unknown, the step has no
\* binding of that name or the binding is not a const; bindings that are not
\* const (artifact references, output bindings) are never changed, and each
\* step's input and output artifact names stay the same.
C29_ConstOverrides ==
    OverridesApplied =>
        /\ ret.raised = NoneValue =>
              \A i \in 1..Len(args.overrides) :
                 \A k \in 1..Len(args.overrides[i][2][2]) :
                    LET at == StepById(args.steps, args.overrides[i][1])
                        param == args.overrides[i][2][2][k][1]
                        before == DictGet(args.steps[at][2].bindings, param)
                        after == DictGet(ret.steps[at][2].bindings, param)
                    IN /\ is_const_binding(before)
                       /\ is_const_binding(after)
                       /\ after[1] = before[1]
                       /\ get_const_binding_value(after) = args.overrides[i][2][2][k][2]
        /\ (\E i \in 1..Len(args.overrides) :
               \/ StepById(args.steps, args.overrides[i][1]) = 0
               \/ \E k \in 1..Len(args.overrides[i][2][2]) :
                     NotOverridable(args.overrides[i][1], args.overrides[i][2][2][k][1]))
              => ret.raised # NoneValue /\ ret.raised[2] = "ValueError"
        /\ Len(ret.steps) = Len(args.steps)
        /\ \A at \in 1..Len(args.steps) :
              /\ ArtifactNames(ret.steps[at]) = ArtifactNames(args.steps[at])
              /\ args.steps[at][1] = "ResolvedStep" =>
                    /\ DictKeys(ret.steps[at][2].bindings) = DictKeys(args.steps[at][2].bindings)
                    /\ \A key \in DictKeys(args.steps[at][2].bindings) :
                          ~is_const_binding(DictGet(args.steps[at][2].bindings, key)) =>
                             DictGet(ret.steps[at][2].bindings, key)
                                = DictGet(args.steps[at][2].bindings, key)

\* An override of a {"const": ...} mapping binding was applied.
C29_Witness ==
    /\ OverridesApplied
    /\ ret.raised = NoneValue
    /\ ret.steps # args.steps
    /\ \E at \in 1..Len(ret.steps) :
          /\ ret.steps[at][1] = "ResolvedStep"
          /\ DictHas(ret.steps[at][2].bindings, "multiplier")
          /\ DictGet(ret.steps[at][2].bindings, "multiplier") = Dict(<< <<"const", Str("a")>> >>)

----------------------------------------------------------------------------
(* Row counts: _count_rows (trakt/runtime/runner_base.py).                   *)

MaxMembers == 2

\* Payloads that are not collections of payloads: data frames of 0..MaxRows
\* rows (sized), a string, None, a number and a generator (not sized).
CountLeaves ==
    {Frame(n) : n \in 0..MaxRows}
        \cup {Str("text"), NoneValue, IntValue(1), Object("generator")}

\* Collections that occur as members of a payload.
CountMembers ==
    CountLeaves
        \cup {List(<<>>), List(<<Frame(1), Str("text")>>), Tuple(<<IntValue(1)>>),
              Dict(<< <<"x", Frame(2)>> >>), List(<<Frame(0)>>)}

\* The payloads counted: a leaf, or a list, tuple or mapping of members.
CountPayloads ==
    CountLeaves
        \cup {List(items) : items \in SeqsUpTo(CountMembers, MaxMembers)}
        \cup {Tuple(items) : items \in SeqsUpTo(CountMembers, MaxMembers)}
        \cup {Dict([i \in 1..Len(vs) |-> <<BindingKeyOrder[i], vs[i]>>]) :
                 vs \in SeqsUpTo(CountMembers, IF MaxMembers < Len(BindingKeyOrder)
                                               THEN MaxMembers ELSE Len(BindingKeyOrder))}

InitCount ==
    /\ \E payload \in CountPayloads : args = [fn |-> "_count_rows", payload |-> payload]
    /\ ret = NoCall
    /\ pc = "call"
    /\ pipeline = Pipeline("batch", <<>>, <<>>, <<>>)
    /\ verr = NoValidationError
    /\ outcome = NotStarted
    /\ RunIdle
    /\ CtxIdle

CountRows ==
    /\ pc = "call"
    /\ args.fn = "_count_rows"
    /\ ret' = [fn |-> "_count_rows", count |-> _count_rows(args.payload)]
    /\ pc' = "returned"
    /\ UNCHANGED <<args, ctxvars, pipeline, verr, outcome, runvars>>

NextCount == CountRows

SpecCount == InitCount /\ [][NextCount]_vars

RowsCounted == pc = "returned" /\ args.fn = "_count_rows"

\* The values of a mapping, list or tuple payload.
PayloadValues(payload) ==
    IF payload[1] = "dict" THEN [i \in 1..Len(payload[2]) |-> payload[2][i][2]]
    ELSE payload[2]

\* The positions of the values whose row count is known.
KnownCounts(values) == {i \in 1..Len(values) : _count_rows(values[i]) # NoneValue}

RECURSIVE SumOver(_, _)
SumOver(values, positions) ==
    IF positions = {} THEN 0
    ELSE LET i == CHOOSE x \in positions : TRUE
         IN _count_rows(values[i])[2] + SumOver(values, positions \ {i})

----------------------------------------------------------------------------
(* Which row of a key group apply_dedupe_policy keeps.                       *)

\* The positions of the input rows that share the key of `row`.
KeyGroup(row) ==
    {i \in 1..Len(args.data.rows) :
        KeyOf(args.data.rows[i], args.policy.keys) = KeyOf(row, args.policy.keys)}

\* The first row of the key group, in input order, among those with the
\* greatest number of non-null fields.
MostCompleteFirst(group) ==
    LET best == {i \in group : \A j \in group :
                    non_null_count(args.data.rows[i]) >= non_null_count(args.data.rows[j])}
    IN args.data.rows[CHOOSE i \in best : \A j \in best : i <= j]

\* The rule of C31 for one surviving row.
WinnerRuleHolds(row) ==
    LET group == KeyGroup(row)
        winner == args.policy.winner
        order_by == args.policy.order_by
        input == args.data.rows
    IN /\ winner \in {"latest", "max"} =>
             \A i \in group : MayPrecede(row[order_by], input[i][order_by], FALSE)
       /\ winner \in {"earliest", "min"} =>
             \A i \in group : MayPrecede(row[order_by], input[i][order_by], TRUE)
       /\ winner = "first" => row = input[CHOOSE i \in group : \A j \in group : i <= j]
       /\ winner = "last" => row = input[CHOOSE i \in group : \A j \in group : i >= j]
       /\ winner = "non_null" => row = MostCompleteFirst(group)

\* C31, as claimed: in each key group apply_dedupe_policy keeps, for
\* latest/max a row with the highest order_by value, for earliest/min a row
\* with the lowest, for first/last the first/last row in input order, and for
\* non_null the row with the most non-null fields, the earliest such row in
\* input order on a tie; latest/max/earliest/min without order_by raise.
C31_Claimed ==
    /\ DedupeApplicable =>
          /\ ret.raised = NoneValue
          /\ \A j \in 1..Len(ret.data.rows) : WinnerRuleHolds(ret.data.rows[j])
    /\ (/\ pc = "returned"
        /\ args.fn = "apply_dedupe_policy"
        /\ args.policy.winner \in {"latest", "max", "earliest", "min"}
        /\ args.policy.order_by = None) => ret.raised # NoneValue

----------------------------------------------------------------------------
(* Streaming a multi-file CSV input: CsvArtifactAdapter.read_many in stream  *)
(* mode and the generator _iter_csv_chunks (trakt/io/adapters.py).           *)

MaxFiles == 2
MaxFileRows == 3

\* chunk_size or 50_000
DefaultChunkSize == 50000

\* The resolved paths of the input, in the order _resolve_input_paths returns
\* them: each file with its number of data rows and whether its chunks have
\* the declared schema. Row r of file f is <<f, r>>.
CsvFiles == SeqsUpTo([rows : 0..MaxFileRows, valid : BOOLEAN], MaxFiles) \ {<<>>}

\* LocalRunner.stream_chunk_size (any int the caller passes).
ChunkSizes == {-1, 0, 1, 2}

FileRows(files, f) == [r \in 1..files[f].rows |-> <<f, r>>]

\* The state of the generator: the file and row offset it reads next, the
\* chunks it has yielded so far and the exception it raised, if any.
ChunkIterator(chunk_size, file, offset, chunks, raised) ==
    [fn |-> "_iter_csv_chunks", chunk_size |-> chunk_size, file |-> file, offset |-> offset,
     chunks |-> chunks, raised |-> raised]

\* Variant: a chunk holds one row more than chunksize.
read_csv_chunk_OneMore(rows, offset, chunk_size) ==
    SubSeq(rows, offset + 1, IF offset + chunk_size + 1 < Len(rows)
                             THEN offset + chunk_size + 1 ELSE Len(rows))

\* next(read_csv(path, chunksize=chunk_size)): the next chunk_size rows of the
\* file, fewer at its end.
read_csv_chunk(rows, offset, chunk_size) ==
    SubSeq(rows, offset + 1, IF offset + chunk_size < Len(rows)
                             THEN offset + chunk_size ELSE Len(rows))

\* The file the generator reads next: a file without data rows gives one
\* empty chunk or none, as the reader has it.
RECURSIVE NextFileToRead(_, _, _)
NextFileToRead(files, f, empty_chunk) ==
    IF f <= Len(files) /\ files[f].rows = 0 /\ ~empty_chunk
    THEN NextFileToRead(files, f + 1, empty_chunk)
    ELSE f

InitChunks ==
    /\ \E files \in CsvFiles, chunk_size \in ChunkSizes, empty_chunk \in BOOLEAN :
          args = [fn |-> "_iter_csv_chunks", files |-> files, chunk_size |-> chunk_size,
                  empty_chunk |-> empty_chunk]
    /\ ret = NoCall
    /\ pc = "call"
    /\ pipeline = Pipeline("batch", <<>>, <<>>, <<>>)
    /\ verr = NoValidationError
    /\ outcome = NotStarted
    /\ RunIdle
    /\ CtxIdle

\* read_many(paths, artifact, execution_mode="stream", chunk_size): the
\* generator is created, nothing is read yet.
ReadManyStream ==
    /\ pc = "call"
    /\ args.fn = "_iter_csv_chunks"
    /\ ret' = ChunkIterator(IF args.chunk_size = 0 THEN DefaultChunkSize ELSE args.chunk_size,
                            1, 0, <<>>, NoneValue)
    /\ pc' = "iterating"
    /\ UNCHANGED <<args, ctxvars, pipeline, verr, outcome, runvars>>

\* next(generator): the body of _iter_csv_chunks up to its next yield, its
\* raise or its end.
NextChunk ==
    /\ pc = "iterating"
    /\ args.fn = "_iter_csv_chunks"
    /\ LET f == NextFileToRead(args.files, ret.file, args.empty_chunk)
           rows == FileRows(args.files, f)
           chunk == [file |-> f, rows |-> read_csv_chunk(rows, ret.offset, ret.chunk_size)]
           at_end == ret.offset + Len(chunk.rows) >= Len(rows)
       IN IF ret.chunk_size <= 0
          THEN /\ ret' = [ret EXCEPT !.raised = Raise("ValueError", "chunk_size must be positive")]
               /\ pc' = "failed"
          ELSE IF f > Len(args.files)
          THEN /\ ret' = [ret EXCEPT !.file = f, !.offset = 0]
               /\ pc' = "exhausted"
          ELSE IF ~args.files[f].valid
          THEN /\ ret' = [ret EXCEPT !.file = f,
                                     !.raised = Raise("ValueError", "schema columns mismatch")]
               /\ pc' = "failed"
          ELSE /\ ret' = [ret EXCEPT !.file = IF at_end THEN f + 1 ELSE f,
                                     !.offset = IF at_end THEN 0 ELSE ret.offset + Len(chunk.rows),
                                     !.chunks = Append(ret.chunks, chunk)]
               /\ pc' = "iterating"
    /\ UNCHANGED <<args, ctxvars, pipeline, verr, outcome, runvars>>

NextChunks == ReadManyStream \/ NextChunk

SpecChunks == InitChunks /\ [][NextChunks]_vars

Streaming == args.fn = "_iter_csv_chunks" /\ pc # "call"

\* The rows of all files, in path order.
AllFileRows == Flatten([f \in 1..Len(args.files) |-> FileRows(args.files, f)])

YieldedRows == Flatten([i \in 1..Len(ret.chunks) |-> ret.chunks[i].rows])

IsPrefix(s, t) == Len(s) <= Len(t) /\ s = SubSeq(t, 1, Len(s))

\* Chunks come file after file in path order, each chunk from one file, and
\* the rows yielded so far are the first rows of the files' concatenation.
StrictlySequential ==
    /\ \A i \in 1..Len(ret.chunks) :
          \A k \in 1..Len(ret.chunks[i].rows) : ret.chunks[i].rows[k][1] = ret.chunks[i].file
    /\ \A i, j \in 1..Len(ret.chunks) : i < j => ret.chunks[i].file <= ret.chunks[j].file
    /\ IsPrefix(YieldedRows, AllFileRows)
    /\ pc = "exhausted" => YieldedRows = AllFileRows

----------------------------------------------------------------------------
(* LambdaRunner (trakt/runtime/lambda_runner.py): run() of RunnerBase with   *)
(* the row limit of LambdaRunner.load_inputs.                                *)

\* LambdaRunner(max_batch_rows=...)
MaxBatchRowsValues == {1, 2}

\* The pipelines run: one CSV input `a`, one or two steps, one output.
LambdaStep(i, ins, outs) ==
    MkStep(i, [inputs |-> ins, outputs |-> outs, supports_batch |-> TRUE,
               supports_stream |-> TRUE], TRUE)

LambdaPipelines ==
    {Pipeline(m, <<Artifact("a", << <<"c", "s", "v">>, CONCAT, BoolFlag(TRUE) >>)>>, sts,
              <<[target |-> Target(1), source |-> "b"]>>) :
        m \in {"batch", "stream"},
        sts \in {<<LambdaStep(1, <<"a">>, <<"b">>)>>,
                 <<LambdaStep(1, <<"a">>, <<"b">>), LambdaStep(2, <<"b">>, <<>>)>>}}

\* The number of rows in all files of the input.
TotalRows(files) ==
    LET total[i \in 0..Len(files)] == IF i = 0 THEN 0 ELSE total[i - 1] + files[i]
    IN total[Len(files)]

\* What LocalRunner.load_inputs binds to the input: the combined frame in
\* batch mode, the generator of chunks in stream mode.
LoadedPayload(execution_mode, files) ==
    IF execution_mode = "stream" THEN [kind |-> "generator", rows |-> TotalRows(files)]
    ELSE [kind |-> "frame", rows |-> TotalRows(files)]

\* Variant: no payload has a length.
_safe_len_Unsized(payload) == NoneValue

\* _safe_len(payload): len(payload), None on TypeError.
_safe_len(payload) == IF payload.kind = "frame" THEN IntValue(payload.rows) ELSE NoneValue

MaxBatchRowsError == Exc("Exception", "ValueError", "input exceeds max_batch_rows")

NoInputFilesError == Exc("Exception", "FileNotFoundError", "No input files found")

InitLambda ==
    /\ pipeline \in LambdaPipelines
    /\ \E files \in SeqsUpTo(0..MaxFileRows, MaxFiles), max_batch_rows \in MaxBatchRowsValues :
          args = [fn |-> "LambdaRunner.run", files |-> files,
                  max_batch_rows |-> max_batch_rows]
    /\ ret = NoCall
    /\ pc = "run"
    /\ verr = NoValidationError
    /\ outcome = NotStarted
    /\ RunIdle
    /\ CtxIdle

\* LambdaRunner.load_inputs: super().load_inputs(...), then the row limit.
LambdaLoadInputs ==
    /\ pc = "load"
    /\ args.fn = "LambdaRunner.run"
    /\ loads' = loads + 1
    /\ LET payload == LoadedPayload(pipeline.execution_mode, args.files)
           row_count == _safe_len(payload)
       IN \/ /\ args.files = <<>>
             /\ Except("load_inputs", NoInputFilesError)
             /\ UNCHANGED artifacts
          \/ /\ args.files # <<>>
             /\ \E e \in CallbackErrors : Except("load_inputs", e)
             /\ UNCHANGED artifacts
          \/ /\ args.files # <<>>
             /\ IF row_count # NoneValue /\ row_count[2] > args.max_batch_rows
                THEN /\ Except("load_inputs", MaxBatchRowsError)
                     /\ UNCHANGED artifacts
                ELSE /\ artifacts' = InputNames(pipeline)
                     /\ pc' = "steps"
                     /\ UNCHANGED <<exc, error, failure>>
    /\ UNCHANGED <<callvars, ctxvars, pipeline, verr, step_reports, invoked, out_calls, outputs,
                   result, manifest_calls, manifest_files, manifest_exc, outcome>>

NextLambda ==
    RunValidate \/ LambdaLoadInputs \/ ExecuteStep \/ WriteOutputs \/ WriteManifest \/ Exit

SpecLambda == InitLambda /\ [][NextLambda]_vars

\* super().load_inputs has loaded an input of more than max_batch_rows rows.
OversizedInputLoaded ==
    /\ args.fn = "LambdaRunner.run"
    /\ loads = 1
    /\ TotalRows(args.files) > args.max_batch_rows
    /\ ~(failure.where = "load_inputs" /\ failure.exc # MaxBatchRowsError)

\* The run failed on the row limit before any step handler was invoked, and
\* the manifest written for it has status failed.
RejectedOnRowLimit ==
    /\ failure = [where |-> "load_inputs", exc |-> MaxBatchRowsError]
    /\ invoked = <<>>
    /\ step_reports = <<>>
    /\ \A i \in 1..Len(manifest_files) :
          /\ manifest_files[i].status = "failed"
          /\ manifest_files[i].error.type = "ValueError"
    /\ outcome.kind # "returned"
    /\ outcome.kind = "raised" => outcome.exc = MaxBatchRowsError

\* C33, as claimed: a run in which a loaded input has more than
\* max_batch_rows rows fails with the max_batch_rows error before any step
\* handler is invoked, in every execution mode, and its manifest records
\* status failed.
C33_Claimed == OversizedInputLoaded => RejectedOnRowLimit

\* C33, amended: in batch mode a run whose loaded input has more than
\* max_batch_rows rows fails with the max_batch_rows error before any step
\* handler is invoked and its manifest records status failed; in stream mode
\* the payload is a lazy sequence without a length, and the limit is never
\* applied.
C33_BatchRowLimit ==
    /\ (OversizedInputLoaded /\ pipeline.execution_mode = "batch") => RejectedOnRowLimit
    /\ (args.fn = "LambdaRunner.run" /\ pipeline.execution_mode = "stream") =>
          failure.exc # MaxBatchRowsError
    /\ (args.fn = "LambdaRunner.run" /\ failure.exc = MaxBatchRowsError) =>
          TotalRows(args.files) > args.max_batch_rows

\* A batch run of three rows under a limit of two has ended: it raised the
\* row limit error and left a failed manifest, no step was invoked.
C33_Witness ==
    /\ args.fn = "LambdaRunner.run"
    /\ pipeline.execution_mode = "batch"
    /\ args.files = <<3>>
    /\ args.max_batch_rows = 2
    /\ outcome.kind = "raised"
    /\ outcome.exc = MaxBatchRowsError
    /\ Len(manifest_files) = 1
    /\ manifest_files[1].status = "failed"
    /\ invoked = <<>>

----------------------------------------------------------------------------
(* A run of a validated pipeline, step by step, on the artifact namespace:   *)
(* RunnerBase.run / execute_step (trakt/runtime/runner_base.py) with         *)
(* LocalRunner.load_inputs and write_outputs (trakt/runtime/local_runner.py).*)

\* The step definitions of the pipelines run.
ExecDefinitions ==
    {<<dins, douts, Dict(SelectSeq(<< <<"input", i>>, <<"output", o>> >>,
                                   LAMBDA it : it[2] # NoneValue))>> :
        dins \in {<<>>, <<"input">>},
        douts \in {<<>>, <<"output">>},
        i \in {NoneValue, Str("a"), Str("b"), List(<<Str("a"), Str("b")>>)},
        o \in {NoneValue, Str("b"), Str("a"), Str("c"), List(<<Str("b"), Str("c")>>),
               List(<<Str("b"), Str("b")>>)}}

\* The steps of id step_id: as from_definition builds them, or plain Step
\* subclasses with their inputs and outputs lists.
ExecSteps(step_id) ==
    {ResolvedStep(r[2]) :
        r \in {x \in {from_definition(step_id, d[1], d[2], d[3]) : d \in ExecDefinitions} :
                 x[1] = "step"}}
      \cup {PlainStep(step_id, ins, outs) :
              ins \in {<<>>, <<"a">>, <<"b">>},
              outs \in {<<>>, <<"b">>, <<"a">>, <<"b", "c">>}}

\* The pipeline as Pipeline.validate() reads it.
ExecPipeline(required, steps, sources) ==
    Pipeline("batch",
             <<Artifact("a", << <<"c", "s", "v">>, CONCAT, BoolFlag(required) >>)>>,
             [i \in 1..Len(steps) |->
                 [id |-> steps[i][2].id, inputs |-> steps[i][2].inputs,
                  outputs |-> steps[i][2].outputs, supports_batch |-> TRUE,
                  supports_stream |-> FALSE, resolved |-> steps[i][1] = "ResolvedStep"]],
             [i \in 1..Len(sources) |-> [target |-> Target(i), source |-> sources[i]]])

\* The runs: pipelines of one input `a`, one or two steps and one output,
\* that pass Pipeline.validate().
ExecRuns ==
    {run \in [required : BOOLEAN,
              steps : {<<s1>> : s1 \in ExecSteps("s1")}
                         \cup {<<s1, s2>> : s1 \in ExecSteps("s1"), s2 \in ExecSteps("s2")},
              sources : {<<"a">>, <<"b">>, <<"c">>}] :
        validate(ExecPipeline(run.required, run.steps, run.sources)) = NoValidationError}

\* The keys under which the handler of a step returns its data.
ExecResultKeys(step) ==
    IF step[1] = "ResolvedStep" /\ output_bindings(step[2]) # <<>> THEN <<"output", "outputs">>
    ELSE IF Len(step[2].outputs) = 2 THEN step[2].outputs
    ELSE <<"a", "b">>

\* What step.run does: returns a dict of data, or raises.
ExecHandlerOutcomes(step) ==
    {Dict(SelectSeq(<< <<ExecResultKeys(step)[1], v1>>, <<ExecResultKeys(step)[2], v2>> >>,
                    LAMBDA it : it[2] # NoneValue)) :
        v1 \in {NoneValue, Frame(2), List(<<Frame(1), Frame(2)>>)},
        v2 \in {NoneValue, Frame(2)}}
      \cup {Raise("ValueError", "boom")}

\* The names the materialization of a step's result assigns, one entry per
\* assignment, in order.
TargetWrites(step, step_result) ==
    IF step[1] = "ResolvedStep" /\ output_bindings(step[2]) # <<>>
    THEN Flatten([i \in 1..Len(output_bindings(step[2])) |->
                     _coerce_output_binding_values(output_bindings(step[2])[i][2])[2]])
    ELSE LET materialized == _materialize_step_outputs(step, step_result)
         IN [i \in 1..Len(materialized[2]) |-> materialized[2][i][1]]

\* The state of the run: the artifact namespace and every assignment of a
\* name made so far, with the writer (load_inputs or the step).
ExecState(namespace, assigned) ==
    [fn |-> "run", namespace |-> namespace, assigned |-> assigned]

InitExec ==
    /\ \E run \in ExecRuns :
          args = [fn |-> "run", required |-> run.required, steps |-> run.steps,
                  sources |-> run.sources]
    /\ ret = ExecState(<<>>, <<>>)
    /\ pc = "load"
    /\ pipeline = Pipeline("batch", <<>>, <<>>, <<>>)
    /\ verr = NoValidationError
    /\ outcome = NotStarted
    /\ RunIdle
    /\ CtxIdle

\* artifacts = self.load_inputs(pipeline, ctx): every declared input is
\* loaded, or the load raises (no file found).
ExecLoadInputs ==
    /\ pc = "load"
    /\ args.fn = "run"
    /\ loads' = loads + 1
    /\ \/ /\ ret' = ExecState([n \in {"a"} |-> Frame(1)], <<[writer |-> "load_inputs", name |-> "a"]>>)
          /\ pc' = "steps"
          /\ UNCHANGED failure
       \/ /\ failure' = [where |-> "load_inputs", exc |-> NoInputFilesError]
          /\ pc' = "failed"
          /\ UNCHANGED ret
    /\ UNCHANGED <<args, ctxvars, pipeline, verr, outcome, artifacts, step_reports, invoked,
                   out_calls, outputs, error, exc, result, manifest_calls, manifest_files,
                   manifest_exc>>

\* step_report = self.execute_step(step, artifacts, ctx)
ExecRunStep ==
    /\ pc = "steps"
    /\ args.fn = "run"
    /\ StepIndex <= Len(args.steps)
    /\ LET step == args.steps[StepIndex] IN
       \E handler \in ExecHandlerOutcomes(step) :
          LET done == execute_step(step, ret.namespace, handler) IN
          IF IsRaise(_resolve_step_inputs(step, ret.namespace))
          THEN /\ failure' = [where |-> "resolve_inputs", exc |-> ExcOf(done.raised)]
               /\ pc' = "failed"
               /\ UNCHANGED <<ret, invoked, step_reports>>
          ELSE IF done.raised # NoneValue
          THEN /\ failure' = [where |-> "step", exc |-> ExcOf(done.raised)]
               /\ pc' = "failed"
               /\ invoked' = Append(invoked, step[2].id)
               /\ UNCHANGED <<ret, step_reports>>
          ELSE /\ ret' = ExecState(done.artifacts,
                                   ret.assigned \o
                                      [i \in 1..Len(TargetWrites(step, handler)) |->
                                          [writer |-> step[2].id,
                                           name |-> TargetWrites(step, handler)[i]]])
               /\ invoked' = Append(invoked, step[2].id)
               /\ step_reports' = Append(step_reports, step[2].id)
               /\ UNCHANGED <<failure, pc>>
    /\ UNCHANGED <<args, ctxvars, pipeline, verr, outcome, artifacts, loads, out_calls, outputs,
                   error, exc, result, manifest_calls, manifest_files, manifest_exc>>

\* outputs = self.write_outputs(pipeline, artifacts, ctx): each output's
\* source is looked up in the namespace.
ExecWriteOutputs ==
    /\ pc = "steps"
    /\ args.fn = "run"
    /\ StepIndex > Len(args.steps)
    /\ out_calls' = out_calls + 1
    /\ IF \E i \in 1..Len(args.sources) : args.sources[i] \notin DOMAIN ret.namespace
       THEN /\ failure' = [where |-> "output_lookup",
                           exc |-> Exc("Exception", "KeyError", "references unknown artifact")]
            /\ pc' = "failed"
       ELSE /\ pc' = "done"
            /\ UNCHANGED failure
    /\ UNCHANGED <<args, ret, ctxvars, pipeline, verr, outcome, artifacts, step_reports, invoked,
                   loads, outputs, error, exc, result, manifest_calls, manifest_files,
                   manifest_exc>>

NextExec == ExecLoadInputs \/ ExecRunStep \/ ExecWriteOutputs

SpecExec == InitExec /\ [][NextExec]_vars

Executing_Run == args.fn = "run"

\* C34: in a run of a pipeline that passed validation no step's input
\* binding resolution and no output's source lookup fails on a missing
\* artifact: when a step is about to run, every name it reads is in the
\* namespace, and when the outputs are written, so is every source.
C34_ValidationSound ==
    Executing_Run =>
        /\ failure.where \notin {"resolve_inputs", "output_lookup"}
        /\ (pc = "steps" /\ StepIndex <= Len(args.steps)) =>
              /\ Range(args.steps[StepIndex][2].inputs) \subseteq DOMAIN ret.namespace
              /\ ~IsRaise(_resolve_step_inputs(args.steps[StepIndex], ret.namespace))
        /\ (pc = "steps" /\ StepIndex > Len(args.steps)) =>
              Range(args.sources) \subseteq DOMAIN ret.namespace
        /\ pc = "done" => Range(args.sources) \subseteq DOMAIN ret.namespace

\* A run of two steps has written its output: the second step read the name
\* the first one had produced, the output is what the second step produced.
C34_Witness ==
    /\ Executing_Run
    /\ pc = "done"
    /\ Len(args.steps) = 2
    /\ args.steps[1][1] = "ResolvedStep"
    /\ args.steps[1][2].inputs = <<"a">>
    /\ args.steps[1][2].outputs = <<"b">>
    /\ args.steps[2][2].inputs = <<"b">>
    /\ args.steps[2][2].outputs = <<"c">>
    /\ args.sources = <<"c">>
    /\ step_reports = <<"s1", "s2">>

\* C35, as claimed: in a run of a pipeline that passed validation every name
\* of the artifact namespace is assigned at most once: no step overwrites a
\* loaded input or a name written by another step, and one step never writes
\* the same name twice.
C35_Claimed ==
    Executing_Run =>
        \A i, j \in 1..Len(ret.assigned) : i # j => ret.assigned[i].name # ret.assigned[j].name

----------------------------------------------------------------------------
(* The manifest of a run, checked under Spec.                                *)

\* C36, as claimed: a manifest with status "success" is written only for a
\* run in which load_inputs, every step and write_outputs completed; when the
\* run is aborted by any raised error or interruption, the manifest written
\* for it has status "failed" and a non-null error.
C36_Claimed ==
    \A i \in 1..Len(manifest_files) :
        /\ manifest_files[i].status = "success" =>
              /\ failure = NoFailure
              /\ loads = 1
              /\ step_reports = StepIds(pipeline)
              /\ out_calls = 1
        /\ failure # NoFailure =>
              /\ manifest_files[i].status = "failed"
              /\ manifest_files[i].error # NoError

\* The steps of the pipeline before step k, in pipeline order.
StepsBefore(k) == SubSeq(StepIds(pipeline), 1, k - 1)

\* C37: the steps list of the persisted manifest is exactly the sequence of
\* the steps that completed, in pipeline order: one entry per pipeline step
\* when no callback raised (and when only write_outputs raised); the entries
\* of steps 1..k-1 and none for step k or a later step when step k raised;
\* empty when load_inputs raised.
C37_ManifestSteps ==
    \A i \in 1..Len(manifest_files) :
        LET listed == manifest_files[i].steps IN
        /\ failure = NoFailure => listed = StepIds(pipeline)
        /\ failure.where = "write_outputs" => listed = StepIds(pipeline)
        /\ failure.where = "step" => listed = StepsBefore(Len(invoked))
        /\ failure.where = "resolve" => listed = StepsBefore(Len(invoked) + 1)
        /\ failure.where = "load_inputs" => listed = <<>>

\* The second step of a pipeline raised and the manifest lists the first only.
C37_Witness ==
    /\ Len(manifest_files) = 1
    /\ failure.where = "step"
    /\ Len(invoked) = 2
    /\ manifest_files[1].steps = <<pipeline.steps[1].id>>

----------------------------------------------------------------------------
(* The lifecycle events of a run up to the manifest, runner_base.py 56-117. *)

\* A callback raised inside run()'s try block (load_inputs, _resolve_step_inputs
\* or write_outputs at the pipeline level, a handler or materialization inside a
\* step): execute_step's finally clause resets active_span; `except Exception`
\* records the error and emits pipeline.failed; any other BaseException passes
\* the except clause by.
RunAbort ==
    /\ pc \in {"pipeline", "step"}
    /\ \E e \in CallbackErrors :
          /\ failure' = [where |-> pc, exc |-> e]
          /\ exc' = e
          /\ IF e.cls = "Exception"
             THEN /\ error' = [type |-> e.type, message |-> e.message]
                  /\ delivered' = Append(delivered, [name |-> EvPipelineFailed,
                                                     during |-> PipelineSpan,
                                                     user |-> FALSE])
                  /\ span_events' =
                        IF _is_otel_event(EvPipelineFailed)
                        THEN [span_events EXCEPT ![PipelineSpan] = Append(@, EvPipelineFailed)]
                        ELSE span_events
             ELSE UNCHANGED <<error, delivered, span_events>>
    /\ active_span' = None
    /\ pc' = "failed"
    /\ UNCHANGED <<callvars, pipeline, verr, outcome, artifacts, step_reports, invoked, loads,
                   out_calls, outputs, result, manifest_calls, manifest_files, manifest_exc>>

\* finally: the manifest payload is built and write_manifest is called.
ManifestWrite ==
    /\ pc \in {"failed", "completed"}
    /\ manifest_calls' = manifest_calls + 1
    /\ \/ /\ manifest_files' =
                Append(manifest_files, _build_manifest_payload(step_reports, outputs, error))
          /\ UNCHANGED <<exc, manifest_exc>>
       \/ /\ \E m \in ManifestErrors :
                /\ manifest_exc' = m
                /\ exc' = IF error = NoError THEN m ELSE exc
          /\ UNCHANGED manifest_files
    /\ pc' = "done"
    /\ UNCHANGED <<callvars, ctxvars, pipeline, verr, outcome, artifacts, step_reports, invoked,
                   loads, out_calls, outputs, error, result, failure>>

NextLifecycle ==
    \/ EmitUserEvent
    \/ StepEnter
    \/ StepComplete
    \/ RunAbort
    \/ PipelineComplete
    \/ ManifestWrite

SpecLifecycle == InitEvents /\ [][NextLifecycle]_vars

\* The names of the events run() and execute_step emit themselves, in order.
LifecycleEvents ==
    LET own == SelectSeq(delivered, LAMBDA e : ~e.user)
    IN [i \in 1..Len(own) |-> own[i].name]

TerminalEvents == {EvPipelineCompleted, EvPipelineFailed}

\* pipeline.started first, then step.started / step.completed alternating,
\* a terminal event only in the last place.
LifecycleOrdered ==
    LET ev == LifecycleEvents IN
    /\ delivered[1].name = EvPipelineStarted
    /\ \A i \in 2..Len(ev) :
          /\ ev[i] # EvPipelineStarted
          /\ ev[i] = EvStepStarted => ev[i - 1] \in {EvPipelineStarted, EvStepCompleted}
          /\ ev[i] = EvStepCompleted => ev[i - 1] = EvStepStarted
          /\ ev[i] \in TerminalEvents => i = Len(ev)

\* C38, as claimed: in every run of a validated pipeline pipeline.started is
\* the first event, each step.started precedes its step.completed, which
\* precedes the next step.started, and exactly one of pipeline.completed and
\* pipeline.failed is emitted, after all step events and before the manifest
\* is written.
C38_Claimed ==
    /\ LifecycleOrdered
    /\ manifest_calls > 0 =>
          Cardinality({i \in 1..Len(LifecycleEvents) :
                          LifecycleEvents[i] \in TerminalEvents}) = 1

----------------------------------------------------------------------------
(* Failing const overrides, checked under SpecOverrides.                     *)

\* C39, as claimed: apply_const_overrides is all-or-nothing: when it raises
\* for any entry of the overrides, no binding of any step of the pipeline has
\* been changed.
C39_Claimed ==
    (OverridesApplied /\ ret.raised # NoneValue) => ret.steps = args.steps

----------------------------------------------------------------------------
(* evaluate_quality_gates statement by statement: the metrics dict at every  *)
(* point of an evaluation, policies.py 174-292 and 448-466.                  *)

\* The policies of the evaluations followed, among them policies whose
\* row-count minimum lies above the maximum with a row count in between.
PointPolicies ==
    QualityPolicies \cup
    {[p EXCEPT !.row_count_min = IntValue(2), !.row_count_max = IntValue(0)] :
        p \in QualityPolicies}

\* The locals of an evaluation: the metrics dict, the number of tests made
\* and the exception that left the function, if any.
GatePoint(at, checks, violations, warnings, raised) ==
    [fn |-> "evaluate_quality_gates", at |-> at,
     metrics |-> [quality_checks |-> checks, quality_violations |-> violations,
                  quality_warnings |-> warnings],
     raised |-> raised]

InitPoints ==
    /\ \E data \in QualityData, policy \in PointPolicies :
          args = [fn |-> "evaluate_quality_gates", data |-> data, policy |-> policy,
                  ctx |-> "None"]
    /\ ret = NoCall
    /\ pc = "validate"
    /\ pipeline = Pipeline("batch", <<>>, <<>>, <<>>)
    /\ verr = NoValidationError
    /\ outcome = NotStarted
    /\ RunIdle
    /\ CtxIdle

\* _validate_quality_policy(normalized); _validate_dataframe_like(data);
\* metrics = {"quality_checks": 0, "quality_violations": 0, "quality_warnings": 0}
PointValidate ==
    /\ pc = "validate"
    /\ IF _validate_quality_policy(args.policy) # NoneValue
       THEN /\ ret' = GatePoint(0, 0, 0, 0, _validate_quality_policy(args.policy))
            /\ pc' = "rejected"
       ELSE IF _validate_dataframe_like(args.data) # NoneValue
       THEN /\ ret' = GatePoint(0, 0, 0, 0, _validate_dataframe_like(args.data))
            /\ pc' = "rejected"
       ELSE /\ ret' = GatePoint(0, 0, 0, 0, NoneValue)
            /\ pc' = "gates"
    /\ UNCHANGED <<args, ctxvars, pipeline, verr, outcome, runvars>>

\* The test the evaluation is at.
PointTest == GateTests(args.data, args.policy)[ret.at + 1]

\* metrics["quality_checks"] += 1 where the test opens a check, then the
\* test itself: a violation enters _handle_quality_violation.
PointCheck ==
    /\ pc = "gates"
    /\ ret.at < Len(GateTests(args.data, args.policy))
    /\ ret' = [ret EXCEPT !.metrics.quality_checks = IF PointTest.counts THEN @ + 1 ELSE @,
                          !.at = IF PointTest.violated THEN @ ELSE @ + 1]
    /\ pc' = IF PointTest.violated THEN "violation" ELSE "gates"
    /\ UNCHANGED <<args, ctxvars, pipeline, verr, outcome, runvars>>

\* metrics["quality_violations"] += 1; mode = policy.gate_modes.get(gate_name,
\* policy.mode); ... raise ValueError(message) unless the mode is "warn".
PointViolation ==
    /\ pc = "violation"
    /\ LET mode == IF PointTest.gate \in DOMAIN args.policy.gate_modes
                   THEN args.policy.gate_modes[PointTest.gate] ELSE args.policy.mode
       IN /\ ret' = [ret EXCEPT !.metrics.quality_violations = @ + 1,
                                !.raised = IF mode = "warn" THEN @
                                           ELSE Raise("ValueError", PointTest.gate)]
          /\ pc' = IF mode = "warn" THEN "warning" ELSE "raised"
    /\ UNCHANGED <<args, ctxvars, pipeline, verr, outcome, runvars>>

\* if mode == "warn": metrics["quality_warnings"] += 1; _emit_policy_event(...);
\* return -- and the evaluation goes on with the next test (a missing column
\* of unique_keys or max_null_ratio: continue).
PointWarning ==
    /\ pc = "warning"
    /\ ret' = [ret EXCEPT !.metrics.quality_warnings = @ + 1, !.at = @ + 1]
    /\ pc' = "gates"
    /\ UNCHANGED <<args, ctxvars, pipeline, verr, outcome, runvars>>

\* return data, metrics
PointReturn ==
    /\ pc = "gates"
    /\ ret.at = Len(GateTests(args.data, args.policy))
    /\ pc' = "returned"
    /\ UNCHANGED <<callvars, ctxvars, pipeline, verr, outcome, runvars>>

NextPoints == PointValidate \/ PointCheck \/ PointViolation \/ PointWarning \/ PointReturn

SpecPoints == InitPoints /\ [][NextPoints]_vars

\* The evaluation is past the creation of the metrics dict.
Evaluating == pc \in {"gates", "violation", "warning", "raised", "returned"}

\* C40: at every point of a quality-gate evaluation 0 <= quality_warnings <=
\* quality_violations <= quality_checks, and whenever evaluate_quality_gates
\* returns, quality_warnings equals quality_violations.
C40_Counters ==
    Evaluating =>
        /\ 0 <= ret.metrics.quality_warnings
        /\ ret.metrics.quality_warnings <= ret.metrics.quality_violations
        /\ ret.metrics.quality_violations <= ret.metrics.quality_checks
        /\ pc = "returned" =>
              ret.metrics.quality_warnings = ret.metrics.quality_violations

\* An evaluation returned after two warnings and a check that passed.
C40_Witness ==
    /\ pc = "returned"
    /\ ret.metrics.quality_warnings = 2
    /\ ret.metrics.quality_violations = 2
    /\ ret.metrics.quality_checks > 2

====
